---- MODULE Spec2Model ----
(***************************************************************************)
(* Invite -> chat negotiation state machine of the barter server.          *)
(*                                                                         *)
(* The repository carries two revisions of the server:                     *)
(*   build = "email"   src/unnamed/part_004 (identities are e-mails)       *)
(*   build = "userId"  src/server.js        (identities are user ids)      *)
(* The two differ, for the handlers modelled here, only in the branch that *)
(* POST /invites/:id/accept takes on an invite that is not pending.        *)
(*                                                                         *)
(* Every handler is an async function: each `await` on a storage call is a *)
(* point where another request may run.  One action below is one storage   *)
(* call together with the synchronous code that follows it up to the next  *)
(* await.  Documents are Mongoose documents with versionKey: false, so     *)
(* save() writes only the modified paths ($set of changed scalars, $push   *)
(* of pushed array elements) with no version check.                        *)
(* createdAt of invites, chats and messages is the reading of the clock   *)
(* when the handler builds the document.  The clock does not run backwards *)
(* and may stand still between two builds, so a document has the date of   *)
(* the document of its kind built before it, or a later one.  GET /invites *)
(* and GET /chats sort by these dates; among documents with equal sort keys*)
(* the store returns any order.  closedAt holds the ordinal of the save    *)
(* that wrote it (0 = never written).                                      *)
(*                                                                         *)
(* GET /recommend reads the User and Item collections, one await each, and *)
(* writes nothing.  RecSpec draws a catalog and a query string and serves  *)
(* the request on a server that receives no other.  The revisions differ in*)
(* the scorer (rating, price modes, distance decay) and in the filters of  *)
(* recommendSwaps.  Identities are called email in every revision.         *)
(* src/recommend.js exports an earlier enumerator, recommendAllMatches,    *)
(* with a scorer of its own; RecSpec applies it as revision "module".      *)
(* src/unnamed/part_005 is the server before price modes and category      *)
(* pairing; it runs as revision "early".                                   *)
(* A user or item read from the store is a Mongoose document: the nested   *)
(* path gps is an object also when the stored user has none, and a category*)
(* the stored item does not have is the schema default.                    *)
(* POST /registerUser, POST /upload and POST /debug/backfill-item-fields,  *)
(* which write the User and Item collections, run in UpSpec, overlapping   *)
(* with each other and with GET /recommend.                                *)
(* The handlers that only read (GET /invites, GET /chats, GET              *)
(* /chats/:chatId/messages, GET /items/search, GET /recommend) run one at a*)
(* time with the writing handlers in SeqSpec and, in part_004, overlapping *)
(* with them in ReadSpec.  StoredSpec is the negotiation machine started on*)
(* an Invite collection that two POST /invite requests have filled.        *)
(***************************************************************************)
EXTENDS Integers, Sequences, FiniteSets, TLC

VARIABLES
    build,      \* which revision of the server is running
    invites,    \* Invite collection: sequence, _id = index
    chats,      \* Chat collection: sequence, _id = index
    pc,         \* per request slot: the await the handler is stopped at
    cur,        \* per request slot: the handler's locals (request + loaded doc)
    resp,       \* per request slot: the response sent and not yet received
    served,     \* number of requests received so far
    linked,     \* history: per invite, the chat id its first acceptance returned
    doneLog,    \* history: per chat, the identities of the answered confirm-done calls
    users,      \* User collection: sequence of user documents
    items,      \* Item collection: sequence of item documents, _id = index
    query,      \* the query string of the GET /recommend request
    recommended, \* whether GET /recommend has answered
    swaps,      \* the list GET /recommend answered with
    desires,    \* history: the values evaluateDesire returned, in call order
    thrown      \* whether the last recommendation call threw an error

\* The variables of the recommendation; no negotiation handler reads them.
catalog == <<users, items, query, recommended, swaps, desires, thrown>>

vars == <<build, invites, chats, pc, cur, resp, served, linked, doneLog, catalog>>

store == <<invites, chats>>

----------------------------------------------------------------------------
(* Bounds *)

MaxInvites == 3
MaxChats == 3
MaxMessages == 2
MaxDone == 2
MaxRequests == 4

(* Input domains *)

Builds == {"email", "userId"}
Procs == {1, 2}
Emails == {"a", "b"}
Texts == {"hi"}
Missing == ""

\* An identity that no invite names, hence a member of no chat.
Outsider == "c"

\* String order used by Array.prototype.sort on the two identities.
Rank(e) == IF e = "a" THEN 1 ELSE 2

NoId == 0
NoDate == 0

Elems(s) == {s[i] : i \in DOMAIN s}

Min(S) == CHOOSE x \in S : \A y \in S : x <= y

Body(f, t, fi, ti) ==
    [fromEmail |-> f, toEmail |-> t, fromItemId |-> fi, toItemId |-> ti]

\* Request bodies of POST /invite: a swap proposal, a proposal to oneself
\* for the same items, a proposal for the items the other way round, and a
\* body with a field missing.
InviteBodies ==
    {Body("a", "b", "i1", "i2"), Body("a", "a", "i1", "i2"),
     Body("a", "b", "i2", "i1"), Body(Missing, "b", "i1", "i2")}

----------------------------------------------------------------------------
(* Documents *)

\* Dates.  createdAt is Date.now() when the document is built; two
\* documents built within one millisecond have the same date.
NewInvite(body, at) ==
    [fromEmail |-> body.fromEmail, toEmail |-> body.toEmail,
     fromItemId |-> body.fromItemId, toItemId |-> body.toItemId,
     status |-> "pending", createdAt |-> at]

\* [inv.fromEmail, inv.toEmail].sort()
SortedMembers(x, y) == IF Rank(x) <= Rank(y) THEN <<x, y>> ELSE <<y, x>>

NewChat(members, fromItemId, toItemId, at) ==
    [members |-> members,
     createdAt |-> at,
     pair |-> [fromItemId |-> fromItemId, toItemId |-> toItemId],
     messages |-> <<>>,
     doneConfirmations |-> <<>>,
     closed |-> FALSE,
     closedAt |-> NoDate]

\* {senderEmail, text, createdAt: new Date()}
NewMessage(senderEmail, text, at) ==
    [senderEmail |-> senderEmail, text |-> text, createdAt |-> at]

\* PendingMatches with the two identities of the filter mixed up.
PendingMatches_SwappedEmails(body) ==
    {i \in DOMAIN invites :
        /\ invites[i].fromEmail = body.toEmail
        /\ invites[i].toEmail = body.fromEmail
        /\ invites[i].fromItemId = body.fromItemId
        /\ invites[i].toItemId = body.toItemId
        /\ invites[i].status = "pending"}

\* Invite.findOne({fromEmail, toEmail, fromItemId, toItemId, status: "pending"})
PendingMatches(body) ==
    {i \in DOMAIN invites :
        /\ invites[i].fromEmail = body.fromEmail
        /\ invites[i].toEmail = body.toEmail
        /\ invites[i].fromItemId = body.fromItemId
        /\ invites[i].toItemId = body.toItemId
        /\ invites[i].status = "pending"}

\* FindPendingInvite that never finds the pending invite.
FindPendingInvite_Never(body) == NoId

FindPendingInvite(body) ==
    IF PendingMatches(body) = {} THEN NoId ELSE Min(PendingMatches(body))

\* ChatMatches with the two item ids of the filter mixed up.
ChatMatches_SwappedItems(members, fromItemId, toItemId) ==
    {c \in DOMAIN chats :
        /\ Elems(members) \subseteq Elems(chats[c].members)
        /\ chats[c].pair.fromItemId = toItemId
        /\ chats[c].pair.toItemId = fromItemId}

\* Chat.findOne({members: {$all: members}, "pair.fromItemId", "pair.toItemId"})
ChatMatches(members, fromItemId, toItemId) ==
    {c \in DOMAIN chats :
        /\ Elems(members) \subseteq Elems(chats[c].members)
        /\ chats[c].pair.fromItemId = fromItemId
        /\ chats[c].pair.toItemId = toItemId}

FindChat(members, fromItemId, toItemId) ==
    IF ChatMatches(members, fromItemId, toItemId) = {} THEN NoId
    ELSE Min(ChatMatches(members, fromItemId, toItemId))

\* BothConfirmed with some() in place of every().
BothConfirmed_Some(members, confirmations) ==
    \E m \in Elems(members) : m \in Elems(confirmations)

\* chat.members.every(m => confirmations.includes(m))
BothConfirmed(members, confirmations) ==
    \A m \in Elems(members) : m \in Elems(confirmations)

----------------------------------------------------------------------------
(* Handler locals and responses *)

NoCur ==
    [op |-> "none", id |-> NoId, body |-> Body(Missing, Missing, Missing, Missing),
     was |-> "none", email |-> Missing, text |-> Missing,
     pushed |-> FALSE, both |-> FALSE, closed |-> FALSE, confs |-> <<>>,
     item |-> <<>>, user |-> <<>>, docs |-> <<>>, query |-> <<>>,
     updated |-> 0, at |-> NoDate]

\* op: the operation answered; code: the HTTP status; id: the :id or :chatId
\* of the request; inviteId, chatId, closed, confs: the fields of the JSON
\* answer; was: the status of the document the handler had read; docs: the
\* list of a read operation's answer; updated: the count POST
\* /debug/backfill-item-fields answers with.
Response(op, code, id, inviteId, chatId, was) ==
    [op |-> op, code |-> code, id |-> id, inviteId |-> inviteId,
     chatId |-> chatId, was |-> was, closed |-> FALSE, confs |-> <<>>,
     docs |-> <<>>, updated |-> 0]

NoResp == Response("none", NoId, NoId, NoId, NoId, "none")

\* res.json(...) / res.status(...).json(...): the handler ends
Reply(p, r) ==
    /\ resp' = [resp EXCEPT ![p] = r]
    /\ pc' = [pc EXCEPT ![p] = "replied"]
    /\ cur' = [cur EXCEPT ![p] = NoCur]

\* the handler stops at its next await
Await(p, label, locals) ==
    /\ pc' = [pc EXCEPT ![p] = label]
    /\ cur' = [cur EXCEPT ![p] = locals]
    /\ UNCHANGED resp

\* A request is served in the lowest free slot (the slots are interchangeable).
Free(p) ==
    /\ pc[p] = "idle"
    /\ \A q \in Procs : q < p => pc[q] # "idle"
    /\ served < MaxRequests

InFlight(labels) == Cardinality({q \in Procs : pc[q] \in labels})

\* the latest date of a set of dates, NoDate for none
LatestDate(dates) ==
    IF dates = {} THEN NoDate ELSE CHOOSE d \in dates : \A e \in dates : e <= d

\* Date.now() for a document built after one of date latest: the same
\* millisecond or a later one
DatesFrom(latest) == IF latest = NoDate THEN {1} ELSE {latest, latest + 1}

\* The dates the next invite, chat or message built may carry: every
\* document built is stored or about to be stored, and was built before.
NextInviteDates ==
    DatesFrom(LatestDate({invites[i].createdAt : i \in DOMAIN invites}
                         \cup {cur[q].at : q \in {r \in Procs : pc[r] = "inv_create"}}))
NextChatDates ==
    DatesFrom(LatestDate({chats[c].createdAt : c \in DOMAIN chats}
                         \cup {cur[q].at : q \in {r \in Procs : pc[r] = "acc_create"}}))

RECURSIVE SumLen(_)
SumLen(ss) == IF ss = <<>> THEN 0 ELSE Len(Head(ss)) + SumLen(Tail(ss))

\* Messages stored in all chats; confirm-done calls answered on all chats.
TotalMessages == SumLen([c \in DOMAIN chats |-> chats[c].messages])
TotalDone == SumLen(doneLog)
NextMessageDates ==
    DatesFrom(LatestDate(
        UNION {{chats[c].messages[k].createdAt : k \in DOMAIN chats[c].messages} :
                  c \in DOMAIN chats}
        \cup {cur[q].at : q \in {r \in Procs : pc[r] = "msg_save"}}))

----------------------------------------------------------------------------
(* Numbers of the scorer.                                                  *)
(* A JavaScript number is modelled by the exact fraction <<n, d>>, d > 0,  *)
(* in lowest terms; NaN is <<0, 0>>.  The inputs of the model are chosen   *)
(* so that no score lies within floating-point error of a toFixed(3)       *)
(* boundary unless it is exactly representable (see TieFree).              *)

Abs(x) == IF x < 0 THEN -x ELSE x

RECURSIVE GCD(_, _)
GCD(a, b) == IF b = 0 THEN a ELSE GCD(b, a % b)

NaN == <<0, 0>>
IsNaN(x) == x[2] = 0

\* n / d for integers n and d; with d = 0 it is NaN, so that an operation
\* on fractions with a NaN operand gives NaN
Frac(n, d) ==
    IF d = 0 THEN NaN
    ELSE LET g == GCD(Abs(n), Abs(d))
             s == IF d < 0 THEN -1 ELSE 1
         IN  <<(s * n) \div g, (s * d) \div g>>

Zero == Frac(0, 1)
One == Frac(1, 1)

Plus(x, y) == Frac(x[1] * y[2] + y[1] * x[2], x[2] * y[2])
Minus(x, y) == Frac(x[1] * y[2] - y[1] * x[2], x[2] * y[2])
Times(x, y) == Frac(x[1] * y[1], x[2] * y[2])
\* x / y, y # 0
Over(x, y) == Frac(x[1] * y[2], x[2] * y[1])
\* x <= y: false when either is NaN
Leq(x, y) == ~IsNaN(x) /\ ~IsNaN(y) /\ x[1] * y[2] <= y[1] * x[2]
\* Math.max(x, y)
MaxOf(x, y) == IF IsNaN(x) \/ IsNaN(y) THEN NaN ELSE IF Leq(x, y) THEN y ELSE x

\* x || 1: 0 and NaN are falsy
OrOne(x) == IF x = Zero \/ IsNaN(x) THEN One ELSE x

\* +x.toFixed(3): the multiple of 1/1000 nearest to x, the one of larger
\* magnitude when two are equally near; NaN.toFixed(3) is "NaN".
ToFixed3(x) ==
    IF IsNaN(x) THEN NaN
    ELSE LET k == (2000 * Abs(x[1]) + x[2]) \div (2 * x[2])
         IN  Frac(IF x[1] < 0 THEN -k ELSE k, 1000)

----------------------------------------------------------------------------
(* Catalog: users and items *)

\* gps of a user: set tells whether the value is an object (truthy), known
\* whether it holds coordinates.  NoGps is a gps that is absent; EmptyGps
\* is an object without coordinates, {} in a request body and what a
\* Mongoose document gives for the nested path gps: {lat, lng} of a stored
\* user who has none.
NoGps == [set |-> FALSE, known |-> FALSE, lat |-> 0, lng |-> 0]
EmptyGps == [set |-> TRUE, known |-> FALSE, lat |-> 0, lng |-> 0]
Gps(lat, lng) == [set |-> TRUE, known |-> TRUE, lat |-> lat, lng |-> lng]

\* Two places a quarter of the equator apart.
Here == Gps(0, 0)
Far == Gps(0, 90)

User(email, gps) == [email |-> email, gps |-> gps]

\* User.find(): the stored users as Mongoose documents; gps is an object
\* in every one of them
FindUsers(us) ==
    [i \in DOMAIN us |->
        [us[i] EXCEPT !.gps = IF @.set THEN @ ELSE EmptyGps]]

\* category null; a field the stored document does not have
NoCategory == ""
Unset == "unset"

\* priceBandLabelByPrice of part_004
PriceBandLabelByPrice(p) ==
    IF p < 500 THEN "0-499"
    ELSE IF p < 2000 THEN "500-1999"
    ELSE IF p < 5000 THEN "2000-4999"
    ELSE "5000+"

\* An item with a category (or null) and the price band of its price.
Item(email, title, category, condition, price, rating) ==
    [email |-> email, title |-> title, category |-> category,
     condition |-> condition, price |-> price, rating |-> rating,
     priceBand |-> PriceBandLabelByPrice(price)]

\* An item stored before the schema had category and priceBand.
LegacyItem(email, title, condition, price, rating) ==
    [Item(email, title, Unset, condition, price, rating)
        EXCEPT !.priceBand = Unset]

\* Item.find(): the stored items as Mongoose documents; a category the
\* stored document does not have is the schema default "other"
FindItems(its) ==
    [i \in DOMAIN its |->
        [its[i] EXCEPT !.category = IF @ = Unset THEN "other" ELSE @]]

\* haversineDistance in whole kilometres, for the places of the model:
\* 0 between a place and itself, 6371 * pi / 2 = 10007.5 between Here and Far.
QuarterEquatorKm == 10007
HaversineDistance(loc1, loc2) ==
    IF loc1.lat = loc2.lat /\ loc1.lng = loc2.lng THEN 0 ELSE QuarterEquatorKm

\* haversineDistance of server.js, part_005 and recommend.js is NaN when
\* one of the two objects has no coordinates (part_004 reads lat || 0 and
\* calls it for known coordinates only)
NoDistance(loc1, loc2) == ~loc1.known \/ ~loc2.known

\* Math.exp(-km / 10) for the distances of the model: exp(0) = 1, and
\* exp(-1000.75) is below the smallest double and evaluates to 0.
ExpDecay(km) == IF km = 0 THEN One ELSE Zero

\* Math.exp(-haversineDistance(loc1, loc2) / 10)
ExpDecayBetween(loc1, loc2) ==
    IF NoDistance(loc1, loc2) THEN NaN ELSE ExpDecay(HaversineDistance(loc1, loc2))

\* Math.max(0, 1 - km / maxKm), maxKm = 50
MaxKm == 50
LinearDecay(km) == MaxOf(Zero, Minus(One, Frac(km, MaxKm)))

\* inferCategory(title, tags) of part_004 for the titles of the model
InferCategory(title) ==
    CASE title = "book" -> "book"
      [] title = "phone" -> "phone"
      [] OTHER -> "other"

\* userLocations[email] after users.forEach(u => userLocations[u.email] = u.gps)
UserLocation(us, email) ==
    LET hits == {i \in DOMAIN us : us[i].email = email}
    IN  IF hits = {} THEN NoGps
        ELSE us[CHOOSE i \in hits : \A j \in hits : j <= i].gps

----------------------------------------------------------------------------
(* GET /recommend: request parameters *)

\* A query-string parameter: absent, or a finite number.
NoParam == [given |-> FALSE, value |-> 0]
Param(v) == [given |-> TRUE, value |-> v]

\* numOr(v, def)
NumOr(v, def) == IF v.given THEN v.value ELSE def

DefaultWeight == 25

\* raw weights of the request and their normalisation
RawWeights(q) ==
    [price |-> NumOr(q.w_price, DefaultWeight),
     distance |-> NumOr(q.w_distance, DefaultWeight),
     rating |-> NumOr(q.w_rating, DefaultWeight),
     damage |-> NumOr(q.w_damage, DefaultWeight)]

Weights(q) ==
    LET raw == RawWeights(q)
        sum == OrOne(Frac(raw.price + raw.distance + raw.rating + raw.damage, 1))
    IN  [price |-> Over(Frac(raw.price, 1), sum),
         distance |-> Over(Frac(raw.distance, 1), sum),
         rating |-> Over(Frac(raw.rating, 1), sum),
         damage |-> Over(Frac(raw.damage, 1), sum)]

\* opts of the handler: part_004 always scores in tolerance mode, server.js
\* in interval mode when asked for it and in diff mode otherwise.
Opts(b, q) ==
    [priceMode |-> IF b = "email" THEN "tolerance"
                   ELSE IF q.priceMode = "interval" THEN "interval" ELSE "diff",
     priceTol |-> IF NumOr(q.priceTol, 0) < 0 THEN 0 ELSE NumOr(q.priceTol, 0),
     useCategory |-> q.useCategory \in {"1", "true"}]

----------------------------------------------------------------------------
(* evaluateDesire *)

\* diff mode: maxP === 0 ? 0 : 1 - diff / maxP
PriceScoreDiff(priceA, priceB) ==
    LET maxP == IF priceA >= priceB THEN priceA ELSE priceB
    IN  IF maxP = 0 THEN Zero
        ELSE Minus(One, Frac(Abs(priceA - priceB), maxP))

\* tolerance mode: tol > 0 ? Math.max(0, 1 - diff / tol) : diff === 0 ? 1 : 0
PriceScoreTolerance(priceA, priceB, tol) ==
    LET diff == Abs(priceA - priceB)
    IN  IF tol > 0 THEN MaxOf(Zero, Minus(One, Frac(diff, tol)))
        ELSE IF diff = 0 THEN One ELSE Zero

\* idx(p) over PRICE_BANDS = [0, 500, 2000, 5000, 10000, Infinity]
PriceBandIndex(p) ==
    CASE p >= 0 /\ p < 500 -> 0
      [] p >= 500 /\ p < 2000 -> 1
      [] p >= 2000 /\ p < 5000 -> 2
      [] p >= 5000 /\ p < 10000 -> 3
      [] p >= 10000 -> 4
      [] OTHER -> 0

\* Math.max(1, PRICE_BANDS.length - 2)
MaxBandDelta == 4

\* interval mode: 1 - |idx(own) - idx(target)| / maxDelta
PriceScoreInterval(priceA, priceB) ==
    Minus(One, Frac(Abs(PriceBandIndex(priceB) - PriceBandIndex(priceA)),
                    MaxBandDelta))

PriceScore(b, targetItem, ownItem, opts) ==
    IF b = "email"
    THEN IF opts.priceMode = "tolerance"
         THEN PriceScoreTolerance(targetItem.price, ownItem.price, opts.priceTol)
         ELSE PriceScoreDiff(targetItem.price, ownItem.price)
    ELSE IF opts.priceMode = "interval"
         THEN PriceScoreInterval(targetItem.price, ownItem.price)
         ELSE PriceScoreDiff(targetItem.price, ownItem.price)

\* part_004 scores every item 0.5; server.js scores rating / 5
RatingScore(b, targetItem) ==
    IF b = "email" THEN Frac(1, 2) ELSE Frac(targetItem.rating, 5)

\* the evaluator's location: part_004 looks it up by e-mail, server.js
\* reads user.gps
EvaluatorLocation(b, us, user) ==
    IF b = "email" THEN UserLocation(us, user.email) ELSE user.gps

\* part_004: userLoc && targetLoc && userLoc.lat != null && targetLoc.lat
\* != null; server.js: !!(user?.gps && targetLoc)
HasDistance(b, us, user, targetItem) ==
    IF b = "email"
    THEN /\ EvaluatorLocation(b, us, user).known
         /\ UserLocation(us, targetItem.email).known
    ELSE /\ EvaluatorLocation(b, us, user).set
         /\ UserLocation(us, targetItem.email).set

DistanceScore(b, us, user, targetItem) ==
    IF ~HasDistance(b, us, user, targetItem) THEN Zero
    ELSE IF b = "email"
    THEN LinearDecay(HaversineDistance(EvaluatorLocation(b, us, user),
                                       UserLocation(us, targetItem.email)))
    ELSE ExpDecayBetween(EvaluatorLocation(b, us, user),
                         UserLocation(us, targetItem.email))

EvaluateDesire(b, us, user, targetItem, ownItem, weights, opts) ==
    LET damageScore == Frac(targetItem.condition, 100)
        ratingScore == RatingScore(b, targetItem)
        priceScore == PriceScore(b, targetItem, ownItem, opts)
        distanceScore == DistanceScore(b, us, user, targetItem)
        wDistance == IF HasDistance(b, us, user, targetItem)
                     THEN weights.distance ELSE Zero
        sum == OrOne(Plus(Plus(Plus(weights.damage, weights.rating),
                               weights.price), wDistance))
    IN  Over(Plus(Plus(Plus(Times(weights.damage, damageScore),
                            Times(weights.rating, ratingScore)),
                       Times(weights.price, priceScore)),
                  Times(wDistance, distanceScore)),
             sum)

----------------------------------------------------------------------------
(* recommendSwaps *)

\* OtherUser that lets the requester through.
OtherUser_Anyone(userB, currentEmail) == TRUE

\* if (userB.email === currentEmail) continue
OtherUser(userB, currentEmail) == userB.email # currentEmail

\* itemA.category ?? inferCategory(...) in part_004, ?? "other" in server.js
CategoryOf(b, item) ==
    IF item.category \notin {NoCategory, Unset} THEN item.category
    ELSE IF b = "email" THEN InferCategory(item.title) ELSE "other"

\* Skipped without the price filter.
Skipped_CategoryOnly(b, itemA, itemB, opts) ==
    /\ opts.useCategory
    /\ CategoryOf(b, itemA) # CategoryOf(b, itemB)

\* the pair (itemA, itemB) is skipped by one of the two filters
Skipped(b, itemA, itemB, opts) ==
    \/ /\ opts.useCategory
       /\ CategoryOf(b, itemA) # CategoryOf(b, itemB)
    \/ /\ b = "email"
       /\ opts.priceMode = "tolerance"
       /\ Abs(itemA.price - itemB.price) > opts.priceTol

\* The (userB, itemA, itemB) triples the three loops reach and do not skip,
\* in the order the loops reach them.
Candidates(b, currentEmail, us, its, opts) ==
    LET U == Len(us)
        I == Len(its)
        triple(k) == [ub |-> ((k - 1) \div (I * I)) + 1,
                      ia |-> (((k - 1) \div I) % I) + 1,
                      ib |-> ((k - 1) % I) + 1]
        reached(t) ==
            /\ OtherUser(us[t.ub], currentEmail)
            /\ its[t.ia].email = currentEmail
            /\ its[t.ib].email = us[t.ub].email
            /\ ~Skipped(b, its[t.ia], its[t.ib], opts)
    IN  SelectSeq([k \in 1..(U * I * I) |-> triple(k)], reached)

\* SwapRecord whose scoreB is the other user's desire for their own item.
SwapRecord_OwnItem(b, us, its, userA, t, weights, opts) ==
    LET scoreA == EvaluateDesire(b, us, userA, its[t.ib], its[t.ia], weights, opts)
        scoreB == EvaluateDesire(b, us, us[t.ub], its[t.ib], its[t.ia], weights, opts)
        matchScore == Over(Plus(scoreA, scoreB), Frac(2, 1))
    IN  [from |-> t.ia, to |-> t.ib,
         scoreA |-> ToFixed3(scoreA), scoreB |-> ToFixed3(scoreB),
         matchScore |-> ToFixed3(matchScore)]

\* the record pushed for one triple; from and to are the _id of the items
SwapRecord(b, us, its, userA, t, weights, opts) ==
    LET scoreA == EvaluateDesire(b, us, userA, its[t.ib], its[t.ia], weights, opts)
        scoreB == EvaluateDesire(b, us, us[t.ub], its[t.ia], its[t.ib], weights, opts)
        matchScore == Over(Plus(scoreA, scoreB), Frac(2, 1))
    IN  [from |-> t.ia, to |-> t.ib,
         scoreA |-> ToFixed3(scoreA), scoreB |-> ToFixed3(scoreB),
         matchScore |-> ToFixed3(matchScore)]

\* the list s in descending order of matchScore, records of equal
\* matchScore in the order they have in s; for a list without NaN
RECURSIVE SortDescending(_)
SortDescending(s) ==
    IF s = <<>> THEN <<>>
    ELSE LET rest == SortDescending(SubSeq(s, 1, Len(s) - 1))
             r == s[Len(s)]
             k == Cardinality({i \in DOMAIN rest :
                                  Leq(r.matchScore, rest[i].matchScore)})
         IN  SubSeq(rest, 1, k) \o <<r>> \o SubSeq(rest, k + 1, Len(rest))

\* the comparator (a, b) => b.matchScore - a.matchScore returns NaN, which
\* sort reads as 0, for every pair of s
AllTied(s) ==
    \A i, j \in DOMAIN s :
        \/ IsNaN(s[i].matchScore)
        \/ IsNaN(s[j].matchScore)
        \/ s[i].matchScore = s[j].matchScore

\* the lists that hold the records of s in some order
Orderings(s) ==
    {[i \in DOMAIN s |-> s[f[i]]] :
        f \in {g \in [DOMAIN s -> DOMAIN s] :
                  \A i, j \in DOMAIN s : g[i] = g[j] => i = j}}

\* The lists result.sort((a, b) => b.matchScore - a.matchScore) may
\* return.  The sort is stable and descending.  With a NaN matchScore in
\* the list the comparator ties that record with every other: when all
\* records are tied the list stays as it is; when two others differ the
\* comparator is not consistent and the order is left to the engine.
SortSwaps(s) ==
    IF \A i \in DOMAIN s : ~IsNaN(s[i].matchScore) THEN {SortDescending(s)}
    ELSE IF AllTied(s) THEN {s}
    ELSE Orderings(s)

\* users.find(u => u.email === currentEmail): index of the first match, 0 if none
FindUser(us, currentEmail) ==
    LET hits == {i \in DOMAIN us : us[i].email = currentEmail}
    IN  IF hits = {} THEN 0 ELSE Min(hits)

\* the lists recommendSwaps may return: one, unless the sort is left to
\* the engine
RecommendSwaps(b, currentEmail, us, its, weights, opts) ==
    IF FindUser(us, currentEmail) = 0 THEN {<<>>}
    ELSE LET userA == us[FindUser(us, currentEmail)]
             cands == Candidates(b, currentEmail, us, its, opts)
         IN  SortSwaps([k \in DOMAIN cands |->
                 SwapRecord(b, us, its, userA, cands[k], weights, opts)])

\* The values evaluateDesire returned during one recommendSwaps call, in
\* call order.
DesireLog(b, currentEmail, us, its, weights, opts) ==
    IF FindUser(us, currentEmail) = 0 THEN <<>>
    ELSE LET userA == us[FindUser(us, currentEmail)]
             cands == Candidates(b, currentEmail, us, its, opts)
             call(j) ==
                 LET t == cands[(j + 1) \div 2]
                 IN  IF j % 2 = 1
                     THEN EvaluateDesire(b, us, userA, its[t.ib], its[t.ia],
                                         weights, opts)
                     ELSE EvaluateDesire(b, us, us[t.ub], its[t.ia], its[t.ib],
                                         weights, opts)
         IN  [j \in 1..(2 * Len(cands)) |-> call(j)]

----------------------------------------------------------------------------
(* src/recommend.js: recommendAllMatches and its scorer.                   *)
(* The function takes users, items and userLocations from its caller; the  *)
(* model hands it the catalog, with user.location the gps of the user,     *)
(* userLocations built as the handlers build it, and no searchHistory.     *)

\* weights = {damage: 1, rating: 1, keyword: 1, price: 1, distance: 1};
\* if (preference && weights[preference]) weights[preference] = 2
PreferenceWeight(preference, f) == IF preference = f THEN 2 ELSE 1

\* haversineDistance(user.location, targetLoc) reads a property of undefined
DesireThrows(us, user, targetItem) ==
    /\ UserLocation(us, targetItem.email).set
    /\ ~user.gps.set

\* evaluateDesire of recommend.js, for a call that does not throw
EvaluateDesireByPreference(us, user, targetItem, ownItem, preference) ==
    IF ~UserLocation(us, targetItem.email).set THEN Zero
    ELSE LET distanceScore ==
                 ExpDecayBetween(user.gps, UserLocation(us, targetItem.email))
             damageScore == Frac(targetItem.condition, 100)
             ratingScore == Frac(targetItem.rating, 5)
             keywordScore == Zero
             priceScore == PriceScoreDiff(targetItem.price, ownItem.price)
             w(f) == Frac(PreferenceWeight(preference, f), 1)
             totalWeight == Plus(Plus(Plus(Plus(w("damage"), w("rating")),
                                 w("keyword")), w("price")), w("distance"))
         IN  Over(Plus(Plus(Plus(Plus(Times(w("damage"), damageScore),
                                      Times(w("rating"), ratingScore)),
                                 Times(w("keyword"), keywordScore)),
                            Times(w("price"), priceScore)),
                       Times(w("distance"), distanceScore)),
                  totalWeight)

\* The (itemA, other, itemB) triples the three loops of recommendAllMatches
\* reach, in the order the loops reach them.
AllMatchesCandidates(userId, us, its) ==
    LET U == Len(us)
        I == Len(its)
        triple(k) == [ia |-> ((k - 1) \div (U * I)) + 1,
                      ub |-> (((k - 1) \div I) % U) + 1,
                      ib |-> ((k - 1) % I) + 1]
        reached(t) ==
            /\ its[t.ia].email = userId
            /\ us[t.ub].email # userId
            /\ its[t.ib].email = us[t.ub].email
    IN  SelectSeq([k \in 1..(I * U * I) |-> triple(k)], reached)

\* The calls of evaluateDesire one recommendAllMatches call makes when none
\* throws, in call order: evaluator, target item, own item.
AllMatchesCalls(userId, us, its) ==
    LET me == us[FindUser(us, userId)]
        cands == AllMatchesCandidates(userId, us, its)
        call(j) ==
            LET t == cands[(j + 1) \div 2]
            IN  IF j % 2 = 1
                THEN [user |-> me, target |-> its[t.ib], own |-> its[t.ia]]
                ELSE [user |-> us[t.ub], target |-> its[t.ia], own |-> its[t.ib]]
    IN  [j \in 1..(2 * Len(cands)) |-> call(j)]

\* recommendAllMatches ends in an error: `throw new Error(...)` for an
\* unknown user, or a TypeError out of evaluateDesire.
AllMatchesThrows(userId, us, its) ==
    \/ FindUser(us, userId) = 0
    \/ \E j \in DOMAIN AllMatchesCalls(userId, us, its) :
           LET c == AllMatchesCalls(userId, us, its)[j]
           IN  DesireThrows(us, c.user, c.target)

\* the lists recommendAllMatches may return when it does not throw
RecommendAllMatches(userId, us, its, preference) ==
    LET me == us[FindUser(us, userId)]
        cands == AllMatchesCandidates(userId, us, its)
        record(t) ==
            LET scoreA == EvaluateDesireByPreference(us, me, its[t.ib], its[t.ia],
                                                     preference)
                scoreB == EvaluateDesireByPreference(us, us[t.ub], its[t.ia],
                                                     its[t.ib], preference)
                matchScore == Over(Plus(scoreA, scoreB), Frac(2, 1))
            IN  [from |-> t.ia, to |-> t.ib,
                 scoreA |-> ToFixed3(scoreA), scoreB |-> ToFixed3(scoreB),
                 matchScore |-> ToFixed3(matchScore)]
    IN  SortSwaps([k \in DOMAIN cands |-> record(cands[k])])

\* The values evaluateDesire of recommend.js returned during one
\* recommendAllMatches call, in call order, up to the call that threw.
AllMatchesDesireLog(userId, us, its, preference) ==
    IF FindUser(us, userId) = 0 THEN <<>>
    ELSE LET calls == AllMatchesCalls(userId, us, its)
             bad == {j \in DOMAIN calls :
                        DesireThrows(us, calls[j].user, calls[j].target)}
             n == IF bad = {} THEN Len(calls) ELSE Min(bad) - 1
         IN  [j \in 1..n |->
                 EvaluateDesireByPreference(us, calls[j].user, calls[j].target,
                                            calls[j].own, preference)]

----------------------------------------------------------------------------
(* src/unnamed/part_005: the revision of the server before price modes and *)
(* category pairing.  Its scorer returns 0 when a location is missing and  *)
(* does not renormalise; its recommendSwaps has no filter.  RecSpec        *)
(* applies its GET /recommend as revision "early".                         *)

\* Number(v) ?? 25: the number of a parameter that is given; Number of an
\* absent parameter is NaN, which ?? keeps
NumberOf(v) == IF v.given THEN Frac(v.value, 1) ELSE NaN

EarlyRawWeights(q) ==
    [price |-> NumberOf(q.w_price), distance |-> NumberOf(q.w_distance),
     rating |-> NumberOf(q.w_rating), damage |-> NumberOf(q.w_damage)]

EarlyWeights(q) ==
    LET raw == EarlyRawWeights(q)
        sum == OrOne(Plus(Plus(Plus(raw.price, raw.distance), raw.rating),
                          raw.damage))
    IN  [price |-> Over(raw.price, sum),
         distance |-> Over(raw.distance, sum),
         rating |-> Over(raw.rating, sum),
         damage |-> Over(raw.damage, sum)]

\* evaluateDesire of part_005: if (!targetLoc || !user.gps) return 0
EvaluateDesireOrZero(us, user, targetItem, ownItem, weights) ==
    IF ~UserLocation(us, targetItem.email).set \/ ~user.gps.set THEN Zero
    ELSE LET distanceScore ==
                 ExpDecayBetween(user.gps, UserLocation(us, targetItem.email))
             damageScore == Frac(targetItem.condition, 100)
             ratingScore == Frac(targetItem.rating, 5)
             priceScore == PriceScoreDiff(targetItem.price, ownItem.price)
         IN  Plus(Plus(Plus(Times(weights.damage, damageScore),
                            Times(weights.rating, ratingScore)),
                       Times(weights.price, priceScore)),
                  Times(weights.distance, distanceScore))

\* recommendSwaps of part_005 passes no opts: no pair is skipped
NoFilters == [priceMode |-> "diff", priceTol |-> 0, useCategory |-> FALSE]

RecommendSwapsEarly(currentEmail, us, its, weights) ==
    IF FindUser(us, currentEmail) = 0 THEN {<<>>}
    ELSE LET userA == us[FindUser(us, currentEmail)]
             cands == Candidates("early", currentEmail, us, its, NoFilters)
             record(t) ==
                 LET scoreA == EvaluateDesireOrZero(us, userA, its[t.ib], its[t.ia],
                                                    weights)
                     scoreB == EvaluateDesireOrZero(us, us[t.ub], its[t.ia],
                                                    its[t.ib], weights)
                     matchScore == Over(Plus(scoreA, scoreB), Frac(2, 1))
                 IN  [from |-> t.ia, to |-> t.ib,
                      scoreA |-> ToFixed3(scoreA), scoreB |-> ToFixed3(scoreB),
                      matchScore |-> ToFixed3(matchScore)]
         IN  SortSwaps([k \in DOMAIN cands |-> record(cands[k])])

\* The values evaluateDesire of part_005 returned during one recommendSwaps
\* call, in call order.
EarlyDesireLog(currentEmail, us, its, weights) ==
    IF FindUser(us, currentEmail) = 0 THEN <<>>
    ELSE LET userA == us[FindUser(us, currentEmail)]
             cands == Candidates("early", currentEmail, us, its, NoFilters)
             call(j) ==
                 LET t == cands[(j + 1) \div 2]
                 IN  IF j % 2 = 1
                     THEN EvaluateDesireOrZero(us, userA, its[t.ib], its[t.ia],
                                               weights)
                     ELSE EvaluateDesireOrZero(us, us[t.ub], its[t.ia], its[t.ib],
                                               weights)
         IN  [j \in 1..(2 * Len(cands)) |-> call(j)]

\* The revisions whose GET /recommend scores with request weights.
Servers == {"email", "userId", "early"}

\* weights and opts the handler of revision b derives from the query string
WeightsOf(b, q) == IF b = "early" THEN EarlyWeights(q) ELSE Weights(q)
OptsOf(b, q) == IF b = "early" THEN NoFilters ELSE Opts(b, q)

\* recommendSwaps as the handler of revision b calls it on the users and
\* items it has read: the lists it may return, and the values its
\* evaluateDesire calls return
HandlerSwaps(b, q, us, its) ==
    IF b = "early"
    THEN RecommendSwapsEarly(q.email, us, its, EarlyWeights(q))
    ELSE RecommendSwaps(b, q.email, us, its, Weights(q), Opts(b, q))

HandlerDesires(b, q, us, its) ==
    IF b = "early"
    THEN EarlyDesireLog(q.email, us, its, EarlyWeights(q))
    ELSE DesireLog(b, q.email, us, its, Weights(q), Opts(b, q))

----------------------------------------------------------------------------
(* Inputs of GET /recommend *)

MaxItems == 3
MaxCalls == 2

Requesters == {"a", "z"}

UserLists ==
    {<<User("a", Here), User("b", Here)>>,
     <<User("a", Here), User("b", NoGps)>>,
     <<User("a", NoGps), User("b", NoGps)>>,
     <<User("b", Far), User("a", Here), User("c", Here)>>}

ItemKinds ==
    {Item("a", "book", "book", 50, 100, 0),
     Item("a", "3c", NoCategory, 100, 600, 5),
     Item("b", "phone", "phone", 100, 200, 0),
     Item("b", "book", NoCategory, 0, 100, 5),
     LegacyItem("c", "book", 50, 200, 0)}

RECURSIVE SeqsUpTo(_, _)
SeqsUpTo(S, n) ==
    IF n = 0 THEN {<<>>}
    ELSE LET shorter == SeqsUpTo(S, n - 1)
         IN  shorter \cup {Append(s, x) : s \in shorter, x \in S}

ItemLists == SeqsUpTo(ItemKinds, MaxItems)

\* w_price, w_distance, w_rating, w_damage of the query string
WeightParams ==
    {<<NoParam, NoParam, NoParam, NoParam>>,
     <<Param(50), Param(0), Param(0), Param(50)>>,
     <<Param(0), Param(0), Param(0), Param(0)>>,
     <<Param(0), Param(25), Param(0), Param(0)>>,
     <<Param(-25), Param(25), Param(25), Param(25)>>,
     <<Param(25), Param(-25), Param(0), Param(0)>>}

\* priceTol (read by part_004) and priceMode (read by server.js)
PriceParams ==
    {[priceTol |-> NoParam, priceMode |-> "diff"],
     [priceTol |-> Param(200), priceMode |-> "interval"]}

Query(email, w, pp, useCategory) ==
    [email |-> email,
     w_price |-> w[1], w_distance |-> w[2], w_rating |-> w[3], w_damage |-> w[4],
     priceTol |-> pp.priceTol, priceMode |-> pp.priceMode,
     useCategory |-> useCategory, preference |-> ""]

\* The query strings of requester a: every price and category parameter
\* with the default weights and with the weights of the worked example,
\* every other weight vector with the default parameters; and one query
\* string of z, whom no user list holds.
Queries ==
    {Query("a", w, pp, uc) :
        w \in {<<NoParam, NoParam, NoParam, NoParam>>,
               <<Param(50), Param(0), Param(0), Param(50)>>},
        pp \in PriceParams, uc \in {"0", "1"}}
    \cup {Query("a", w, [priceTol |-> NoParam, priceMode |-> "diff"], "0") :
             w \in WeightParams}
    \cup {Query("z", <<NoParam, NoParam, NoParam, NoParam>>,
                 [priceTol |-> NoParam, priceMode |-> "diff"], "0")}

\* The catalog and the request of the worked example: two users without a
\* location, one item each (price 100 at condition 80, price 120 at
\* condition 60), weights price 50 and damage 50, price mode diff.
ScenarioUsers == <<User("a", NoGps), User("b", NoGps)>>

ScenarioItems ==
    <<Item("a", "lamp", NoCategory, 80, 100, 0),
      Item("b", "lamp", NoCategory, 60, 120, 0)>>

ScenarioQueries ==
    {Query("a", <<Param(50), Param(0), Param(0), Param(50)>>,
           [priceTol |-> NoParam, priceMode |-> "diff"], uc) : uc \in {"0", "1"}}

\* A catalog on which the second of the requester's three candidates has no
\* location: the stored user b has no gps.
UnlocatedUsers ==
    <<User("c", Here), User("b", NoGps), User("d", Here), User("a", Here)>>

UnlocatedItems ==
    <<Item("a", "book", "book", 50, 100, 0),
      Item("c", "book", "book", 50, 100, 0),
      Item("b", "book", "book", 50, 100, 0),
      Item("d", "book", "book", 100, 100, 0)>>

\* Arguments of recommendAllMatches: userId and preference.
Preferences == {"", "price", "colour"}

AllMatchesQueries ==
    {[Query(e, <<NoParam, NoParam, NoParam, NoParam>>,
            [priceTol |-> NoParam, priceMode |-> "diff"], "0")
         EXCEPT !.preference = pref] : e \in Requesters, pref \in Preferences}

\* Requests of part_005: no parameter but the four weights is read.
EarlyQueries ==
    {Query("a", w, [priceTol |-> NoParam, priceMode |-> "diff"], "0") :
        w \in WeightParams}
    \cup {Query("z", <<Param(50), Param(0), Param(0), Param(50)>>,
                 [priceTol |-> NoParam, priceMode |-> "diff"], "0")}

NoQuery == Query(Missing, <<NoParam, NoParam, NoParam, NoParam>>,
                 [priceTol |-> NoParam, priceMode |-> "diff"], "0")

----------------------------------------------------------------------------
Init ==
    /\ build \in Builds
    /\ invites = <<>>
    /\ chats = <<>>
    /\ pc = [p \in Procs |-> "idle"]
    /\ cur = [p \in Procs |-> NoCur]
    /\ resp = [p \in Procs |-> NoResp]
    /\ served = 0
    /\ linked = <<>>
    /\ doneLog = <<>>
    /\ users = <<>>
    /\ items = <<>>
    /\ query = NoQuery
    /\ recommended = FALSE
    /\ swaps = <<>>
    /\ desires = <<>>
    /\ thrown = FALSE

----------------------------------------------------------------------------
(* POST /invite *)

\* InviteFindOne that inserts the invite before it validates the body.
InviteFindOne_InsertsBeforeValidating(p, body) ==
    /\ Free(p)
    /\ IF body.fromEmail = Missing \/ body.toEmail = Missing
          \/ body.fromItemId = Missing \/ body.toItemId = Missing
       THEN /\ Len(invites) + InFlight({"inv_create"}) < MaxInvites
            /\ \E at \in NextInviteDates :
                  invites' = Append(invites, NewInvite(body, at))
            /\ linked' = Append(linked, NoId)
            /\ Reply(p, Response("invite", 400, NoId, NoId, NoId, "none"))
       ELSE /\ UNCHANGED <<invites, linked>>
            /\ IF FindPendingInvite(body) # NoId
               THEN Reply(p, Response("invite", 200, NoId, FindPendingInvite(body),
                                      NoId, "pending"))
               ELSE /\ Len(invites) + InFlight({"inv_create"}) < MaxInvites
                    /\ \E at \in NextInviteDates :
                          Await(p, "inv_create",
                                [NoCur EXCEPT !.op = "invite", !.body = body,
                                              !.at = at])
    /\ served' = served + 1
    /\ UNCHANGED <<build, catalog, chats, doneLog>>

InviteFindOne(p, body) ==
    /\ Free(p)
    /\ IF body.fromEmail = Missing \/ body.toEmail = Missing
          \/ body.fromItemId = Missing \/ body.toItemId = Missing
       THEN Reply(p, Response("invite", 400, NoId, NoId, NoId, "none"))
       ELSE IF FindPendingInvite(body) # NoId
       THEN Reply(p, Response("invite", 200, NoId, FindPendingInvite(body),
                              NoId, "pending"))
       ELSE /\ Len(invites) + InFlight({"inv_create"}) < MaxInvites
            /\ \E at \in NextInviteDates :
                  Await(p, "inv_create",
                        [NoCur EXCEPT !.op = "invite", !.body = body, !.at = at])
    /\ served' = served + 1
    /\ UNCHANGED <<build, catalog, invites, chats, linked, doneLog>>

\* InviteCreate that stores the new invite in the place of the newest one.
InviteCreate_ReplacesNewest(p) ==
    /\ pc[p] = "inv_create"
    /\ invites' = IF invites = <<>> THEN <<NewInvite(cur[p].body, cur[p].at)>>
                  ELSE [invites EXCEPT ![Len(invites)] = NewInvite(cur[p].body, cur[p].at)]
    /\ linked' = IF invites = <<>> THEN <<NoId>> ELSE linked
    /\ Reply(p, Response("invite", 200, NoId,
                         IF invites = <<>> THEN 1 ELSE Len(invites), NoId, "none"))
    /\ UNCHANGED <<build, catalog, served, chats, doneLog>>

\* Invite.create({...}): a new document with a new _id
InviteCreate(p) ==
    /\ pc[p] = "inv_create"
    /\ invites' = Append(invites, NewInvite(cur[p].body, cur[p].at))
    /\ linked' = Append(linked, NoId)
    /\ Reply(p, Response("invite", 200, NoId, Len(invites) + 1, NoId, "none"))
    /\ UNCHANGED <<build, catalog, served, chats, doneLog>>

----------------------------------------------------------------------------
(* POST /invites/:id/reject *)

\* RejectFindById without the test of the status read.
RejectFindById_NoPendingCheck(p, id) ==
    /\ Free(p)
    /\ IF id \notin DOMAIN invites
       THEN Reply(p, Response("reject", 404, id, NoId, NoId, "none"))
       ELSE Await(p, "rej_save",
                  [NoCur EXCEPT !.op = "reject", !.id = id,
                                !.was = invites[id].status])
    /\ served' = served + 1
    /\ UNCHANGED <<build, catalog, invites, chats, linked, doneLog>>

RejectFindById(p, id) ==
    /\ Free(p)
    /\ IF id \notin DOMAIN invites
       THEN Reply(p, Response("reject", 404, id, NoId, NoId, "none"))
       ELSE IF invites[id].status # "pending"
       THEN Reply(p, Response("reject", 200, id, NoId, NoId, invites[id].status))
       ELSE Await(p, "rej_save",
                  [NoCur EXCEPT !.op = "reject", !.id = id,
                                !.was = invites[id].status])
    /\ served' = served + 1
    /\ UNCHANGED <<build, catalog, invites, chats, linked, doneLog>>

\* inv.save() after inv.status = "rejected": $set of status
RejectSave(p) ==
    /\ pc[p] = "rej_save"
    /\ invites' = [invites EXCEPT ![cur[p].id].status = "rejected"]
    /\ Reply(p, Response("reject", 200, cur[p].id, NoId, NoId, cur[p].was))
    /\ UNCHANGED <<build, catalog, served, chats, linked, doneLog>>

----------------------------------------------------------------------------
(* POST /invites/:id/accept *)

\* The branch taken on the invite just read:
\*   "return"  answer {ok: true} at once           (part_004, not pending)
\*   "lookup"  look the chat up and answer with it (server.js, accepted)
\*   "save"    set status = "accepted" and go on
AcceptBranch(b, status) ==
    IF b = "email"
    THEN (IF status # "pending" THEN "return" ELSE "save")
    ELSE (IF status = "accepted" THEN "lookup" ELSE "save")

\* res.json({ok: true, chatId}) of the accept handler
AcceptReply(p, chatId) ==
    /\ Reply(p, Response("accept", 200, cur[p].id, NoId, chatId, cur[p].was))
    /\ linked' = [linked EXCEPT ![cur[p].id] = IF @ = NoId THEN chatId ELSE @]

AcceptFindById(p, id) ==
    /\ Free(p)
    /\ IF id \notin DOMAIN invites
       THEN Reply(p, Response("accept", 404, id, NoId, NoId, "none"))
       ELSE LET inv == invites[id]
                locals == [NoCur EXCEPT !.op = "accept", !.id = id,
                              !.body = Body(inv.fromEmail, inv.toEmail,
                                            inv.fromItemId, inv.toItemId),
                              !.was = inv.status]
            IN  CASE AcceptBranch(build, inv.status) = "return" ->
                       Reply(p, Response("accept", 200, id, NoId, NoId, inv.status))
                  [] AcceptBranch(build, inv.status) = "lookup" ->
                       Await(p, "acc_lookup", locals)
                  [] OTHER ->
                       /\ Len(chats) + InFlight({"acc_save", "acc_find", "acc_create"})
                             < MaxChats
                       /\ Await(p, "acc_save", locals)
    /\ served' = served + 1
    /\ UNCHANGED <<build, catalog, invites, chats, linked, doneLog>>

\* server.js 234-235: the chat of an invite read as accepted
AcceptLookup(p) ==
    /\ pc[p] = "acc_lookup"
    /\ LET inv == cur[p].body
       IN  AcceptReply(p, FindChat(<<inv.fromEmail, inv.toEmail>>,
                                   inv.fromItemId, inv.toItemId))
    /\ UNCHANGED <<build, catalog, served, invites, chats, doneLog>>

\* inv.save() after inv.status = "accepted": $set of status
AcceptSave(p) ==
    /\ pc[p] = "acc_save"
    /\ invites' = [invites EXCEPT ![cur[p].id].status = "accepted"]
    /\ Await(p, "acc_find", cur[p])
    /\ UNCHANGED <<build, catalog, served, chats, linked, doneLog>>

AcceptFindOne(p) ==
    /\ pc[p] = "acc_find"
    /\ LET inv == cur[p].body
           found == FindChat(SortedMembers(inv.fromEmail, inv.toEmail),
                             inv.fromItemId, inv.toItemId)
       IN  IF found # NoId
           THEN AcceptReply(p, found)
           ELSE /\ \E at \in NextChatDates :
                      Await(p, "acc_create", [cur[p] EXCEPT !.at = at])
                /\ UNCHANGED linked
    /\ UNCHANGED <<build, catalog, served, invites, chats, doneLog>>

AcceptCreate(p) ==
    /\ pc[p] = "acc_create"
    /\ LET inv == cur[p].body
       IN  chats' = Append(chats,
               NewChat(SortedMembers(inv.fromEmail, inv.toEmail),
                       inv.fromItemId, inv.toItemId, cur[p].at))
    /\ AcceptReply(p, Len(chats) + 1)
    /\ doneLog' = Append(doneLog, <<>>)
    /\ UNCHANGED <<build, catalog, served, invites>>

----------------------------------------------------------------------------
(* POST /chats/:chatId/messages *)

\* MsgFindById without the test of chat.closed (as in src/unnamed/part_005).
MsgFindById_NoClosedCheck(p, chatId, senderEmail, text) ==
    /\ Free(p)
    /\ IF senderEmail = Missing \/ text = Missing
       THEN Reply(p, Response("message", 400, chatId, NoId, NoId, "none"))
       ELSE IF chatId \notin DOMAIN chats
       THEN Reply(p, Response("message", 404, chatId, NoId, NoId, "none"))
       ELSE /\ TotalMessages + InFlight({"msg_save"}) < MaxMessages
            /\ \E at \in NextMessageDates :
                  Await(p, "msg_save",
                        [NoCur EXCEPT !.op = "message", !.id = chatId,
                           !.email = senderEmail, !.text = text, !.was = "open",
                           !.at = at])
    /\ served' = served + 1
    /\ UNCHANGED <<build, catalog, invites, chats, linked, doneLog>>

\* MsgFindById with a membership test like that of POST /chats/:chatId/done.
MsgFindById_MembersOnly(p, chatId, senderEmail, text) ==
    /\ Free(p)
    /\ IF senderEmail = Missing \/ text = Missing
       THEN Reply(p, Response("message", 400, chatId, NoId, NoId, "none"))
       ELSE IF chatId \notin DOMAIN chats
       THEN Reply(p, Response("message", 404, chatId, NoId, NoId, "none"))
       ELSE IF chats[chatId].closed
       THEN Reply(p, Response("message", 403, chatId, NoId, NoId, "closed"))
       ELSE IF senderEmail \notin Elems(chats[chatId].members)
       THEN Reply(p, Response("message", 403, chatId, NoId, NoId, "none"))
       ELSE /\ TotalMessages + InFlight({"msg_save"}) < MaxMessages
            /\ \E at \in NextMessageDates :
                  Await(p, "msg_save",
                        [NoCur EXCEPT !.op = "message", !.id = chatId,
                           !.email = senderEmail, !.text = text, !.was = "open",
                           !.at = at])
    /\ served' = served + 1
    /\ UNCHANGED <<build, catalog, invites, chats, linked, doneLog>>

MsgFindById(p, chatId, senderEmail, text) ==
    /\ Free(p)
    /\ IF senderEmail = Missing \/ text = Missing
       THEN Reply(p, Response("message", 400, chatId, NoId, NoId, "none"))
       ELSE IF chatId \notin DOMAIN chats
       THEN Reply(p, Response("message", 404, chatId, NoId, NoId, "none"))
       ELSE IF chats[chatId].closed
       THEN Reply(p, Response("message", 403, chatId, NoId, NoId, "closed"))
       ELSE /\ TotalMessages + InFlight({"msg_save"}) < MaxMessages
            /\ \E at \in NextMessageDates :
                  Await(p, "msg_save",
                        [NoCur EXCEPT !.op = "message", !.id = chatId,
                           !.email = senderEmail, !.text = text, !.was = "open",
                           !.at = at])
    /\ served' = served + 1
    /\ UNCHANGED <<build, catalog, invites, chats, linked, doneLog>>

\* MsgSave that writes the log as the one new message alone.
MsgSave_Overwrites(p) ==
    /\ pc[p] = "msg_save"
    /\ chats' = [chats EXCEPT ![cur[p].id].messages =
                   <<NewMessage(cur[p].email, cur[p].text, cur[p].at)>>]
    /\ Reply(p, Response("message", 200, cur[p].id, NoId, NoId, cur[p].was))
    /\ UNCHANGED <<build, catalog, served, invites, linked, doneLog>>

\* chat.save() after chat.messages.push(...): $push of the one new message
MsgSave(p) ==
    /\ pc[p] = "msg_save"
    /\ chats' = [chats EXCEPT ![cur[p].id].messages =
                   Append(@, NewMessage(cur[p].email, cur[p].text, cur[p].at))]
    /\ Reply(p, Response("message", 200, cur[p].id, NoId, NoId, cur[p].was))
    /\ UNCHANGED <<build, catalog, served, invites, linked, doneLog>>

----------------------------------------------------------------------------
(* POST /chats/:chatId/done *)

\* DoneFindById without the membership test.
DoneFindById_NoMemberCheck(p, chatId, email) ==
    /\ Free(p)
    /\ IF email = Missing
       THEN Reply(p, Response("done", 400, chatId, NoId, NoId, "none"))
       ELSE IF chatId \notin DOMAIN chats
       THEN Reply(p, Response("done", 404, chatId, NoId, NoId, "none"))
       ELSE LET chat == chats[chatId]
                pushed == email \notin Elems(chat.doneConfirmations)
                confs == IF pushed THEN Append(chat.doneConfirmations, email)
                         ELSE chat.doneConfirmations
                both == BothConfirmed(chat.members, confs)
            IN  /\ TotalDone + InFlight({"done_save"}) < MaxDone
                /\ Await(p, "done_save",
                      [NoCur EXCEPT !.op = "done", !.id = chatId, !.email = email,
                         !.was = IF chat.closed THEN "closed" ELSE "open",
                         !.pushed = pushed, !.both = both,
                         !.closed = IF both THEN TRUE ELSE chat.closed,
                         !.confs = confs])
    /\ served' = served + 1
    /\ UNCHANGED <<build, catalog, invites, chats, linked, doneLog>>

DoneFindById(p, chatId, email) ==
    /\ Free(p)
    /\ IF email = Missing
       THEN Reply(p, Response("done", 400, chatId, NoId, NoId, "none"))
       ELSE IF chatId \notin DOMAIN chats
       THEN Reply(p, Response("done", 404, chatId, NoId, NoId, "none"))
       ELSE IF email \notin Elems(chats[chatId].members)
       THEN Reply(p, Response("done", 403, chatId, NoId, NoId, "none"))
       ELSE LET chat == chats[chatId]
                pushed == email \notin Elems(chat.doneConfirmations)
                confs == IF pushed THEN Append(chat.doneConfirmations, email)
                         ELSE chat.doneConfirmations
                both == BothConfirmed(chat.members, confs)
            IN  /\ TotalDone + InFlight({"done_save"}) < MaxDone
                /\ Await(p, "done_save",
                      [NoCur EXCEPT !.op = "done", !.id = chatId, !.email = email,
                         !.was = IF chat.closed THEN "closed" ELSE "open",
                         !.pushed = pushed, !.both = both,
                         !.closed = IF both THEN TRUE ELSE chat.closed,
                         !.confs = confs])
    /\ served' = served + 1
    /\ UNCHANGED <<build, catalog, invites, chats, linked, doneLog>>

\* DoneSave that writes the confirmations as the one pushed identity alone.
DoneSave_Replaces(p) ==
    /\ pc[p] = "done_save"
    /\ LET c == cur[p].id
       IN  /\ chats' = [chats EXCEPT
                  ![c].doneConfirmations =
                      IF cur[p].pushed THEN <<cur[p].email>> ELSE @,
                  ![c].closed = IF cur[p].both THEN TRUE ELSE @,
                  ![c].closedAt = IF cur[p].both THEN @ + 1 ELSE @]
           /\ doneLog' = [doneLog EXCEPT ![c] = Append(@, cur[p].email)]
           /\ Reply(p, [Response("done", 200, c, NoId, NoId, cur[p].was) EXCEPT
                          !.closed = cur[p].closed, !.confs = cur[p].confs])
    /\ UNCHANGED <<build, catalog, served, invites, linked>>

\* chat.save(): $push of the pushed identity; $set of closed and closedAt
\* when the handler assigned them
DoneSave(p) ==
    /\ pc[p] = "done_save"
    /\ LET c == cur[p].id
       IN  /\ chats' = [chats EXCEPT
                  ![c].doneConfirmations =
                      IF cur[p].pushed THEN Append(@, cur[p].email) ELSE @,
                  ![c].closed = IF cur[p].both THEN TRUE ELSE @,
                  ![c].closedAt = IF cur[p].both THEN @ + 1 ELSE @]
           /\ doneLog' = [doneLog EXCEPT ![c] = Append(@, cur[p].email)]
           /\ Reply(p, [Response("done", 200, c, NoId, NoId, cur[p].was) EXCEPT
                          !.closed = cur[p].closed, !.confs = cur[p].confs])
    /\ UNCHANGED <<build, catalog, served, invites, linked>>

----------------------------------------------------------------------------
(* The read operations: GET /invites, GET /chats, GET /chats/:chatId/       *)
(* messages, GET /items/search (part_004 only) and GET /recommend with its  *)
(* two awaits.                                                              *)

\* The lists that hold every document of hits once.
ListsOf(hits) ==
    {s \in [1..Cardinality(hits) -> hits] :
        \A i, j \in DOMAIN s : i # j => s[i] # s[j]}

\* invite i stands before invite j under .sort({createdAt: -1})
InviteBefore(i, j) == invites[i].createdAt > invites[j].createdAt

\* Invite.find({toEmail: email}) / ({fromEmail: email}) .sort({createdAt: -1}):
\* the lists of ids the find may return, later dates first, invites of one
\* date in any order
InvitesOf(field, email) ==
    {s \in ListsOf({i \in DOMAIN invites :
                       IF field = "to" THEN invites[i].toEmail = email
                       ELSE invites[i].fromEmail = email}) :
        \A i, j \in DOMAIN s : i < j => ~InviteBefore(s[j], s[i])}

\* one element of the answer of GET /chats; lastMessage is a list of no or
\* one message; server.js sends no closedAt
ChatSummary(b, c) ==
    [id |-> c, members |-> chats[c].members, pair |-> chats[c].pair,
     closed |-> chats[c].closed,
     closedAt |-> IF b = "email" THEN chats[c].closedAt ELSE NoDate,
     lastMessage |-> IF chats[c].messages = <<>> THEN <<>>
                     ELSE <<chats[c].messages[Len(chats[c].messages)]>>]

\* the key of chat c under the sort key "messages.createdAt": -1: the
\* latest date of its messages; a chat without messages sorts after every
\* chat that has one
LatestMessageDate(c) ==
    LET dates == {chats[c].messages[k].createdAt : k \in DOMAIN chats[c].messages}
    IN  IF dates = {} THEN NoDate
        ELSE CHOOSE d \in dates : \A e \in dates : e <= d

\* chat c stands before chat d under
\* .sort({"messages.createdAt": -1, createdAt: -1})
ChatBefore(c, d) ==
    \/ LatestMessageDate(c) > LatestMessageDate(d)
    \/ /\ LatestMessageDate(c) = LatestMessageDate(d)
       /\ chats[c].createdAt > chats[d].createdAt

\* Chat.find({members: email}).sort(...), mapped: the lists the handler may
\* answer, chats with equal sort keys in any order
ChatsOf(b, email) ==
    {[k \in DOMAIN s |-> ChatSummary(b, s[k])] :
        s \in {t \in ListsOf({c \in DOMAIN chats :
                                 email \in Elems(chats[c].members)}) :
                  \A i, j \in DOMAIN t : i < j => ~ChatBefore(t[j], t[i])}}

\* new RegExp(keyword, "i") tested on a title, for the keywords and titles
\* of the model
Contains(title, keyword) ==
    \/ keyword = title
    \/ keyword = "o" /\ title \in {"book", "phone"}

\* Item.find({$or: [{title: regex}, {tags: regex}], email: {$ne: email}})
\* (no item of the model has tags)
SearchHits(keyword, email) ==
    LET hit(i) == /\ Contains(items[i].title, keyword)
                  /\ email = Missing \/ items[i].email # email
    IN  SelectSeq([k \in 1..Len(items) |-> k], hit)

\* GET /invites up to its second await
InvitesFindReceived(p, email) ==
    /\ Free(p)
    /\ IF email = Missing
       THEN Reply(p, Response("invites", 400, NoId, NoId, NoId, "none"))
       ELSE \E received \in InvitesOf("to", email) :
               Await(p, "invs_sent",
                     [NoCur EXCEPT !.op = "invites", !.email = email,
                                   !.docs = received])
    /\ served' = served + 1
    /\ UNCHANGED <<build, catalog, invites, chats, linked, doneLog>>

InvitesFindSent(p) ==
    /\ pc[p] = "invs_sent"
    /\ \E sent \in InvitesOf("from", cur[p].email) :
          Reply(p, [Response("invites", 200, NoId, NoId, NoId, "none")
                      EXCEPT !.docs = <<[received |-> cur[p].docs, sent |-> sent]>>])
    /\ UNCHANGED <<build, catalog, served, invites, chats, linked, doneLog>>

\* GET /chats
ChatsFind(p, email) ==
    /\ Free(p)
    /\ IF email = Missing
       THEN Reply(p, Response("chats", 400, NoId, NoId, NoId, "none"))
       ELSE \E list \in ChatsOf(build, email) :
               Reply(p, [Response("chats", 200, NoId, NoId, NoId, "none")
                           EXCEPT !.docs = list])
    /\ served' = served + 1
    /\ UNCHANGED <<build, catalog, invites, chats, linked, doneLog>>

\* MessagesFindById that closes the chat it reads.
MessagesFindById_Closes(p, chatId) ==
    /\ Free(p)
    /\ IF chatId \notin DOMAIN chats
       THEN /\ Reply(p, Response("messages", 404, chatId, NoId, NoId, "none"))
            /\ UNCHANGED chats
       ELSE /\ Reply(p, [Response("messages", 200, chatId, NoId, NoId, "none")
                           EXCEPT !.closed = chats[chatId].closed,
                                  !.confs = chats[chatId].doneConfirmations,
                                  !.docs = chats[chatId].messages])
            /\ chats' = [chats EXCEPT ![chatId].closed = TRUE]
    /\ served' = served + 1
    /\ UNCHANGED <<build, catalog, invites, linked, doneLog>>

\* GET /chats/:chatId/messages
MessagesFindById(p, chatId) ==
    /\ Free(p)
    /\ IF chatId \notin DOMAIN chats
       THEN Reply(p, Response("messages", 404, chatId, NoId, NoId, "none"))
       ELSE Reply(p, [Response("messages", 200, chatId, NoId, NoId, "none")
                        EXCEPT !.closed = chats[chatId].closed,
                               !.confs = chats[chatId].doneConfirmations,
                               !.docs = chats[chatId].messages])
    /\ served' = served + 1
    /\ UNCHANGED <<build, catalog, invites, chats, linked, doneLog>>

\* GET /items/search (a route of part_004 only); String(q).trim() is q for
\* the keywords of the model; limit(50) cuts nothing off
SearchFind(p, keyword, email) ==
    /\ build = "email"
    /\ Free(p)
    /\ IF keyword = ""
       THEN Reply(p, Response("search", 200, NoId, NoId, NoId, "none"))
       ELSE Reply(p, [Response("search", 200, NoId, NoId, NoId, "none")
                        EXCEPT !.docs = SearchHits(keyword, email)])
    /\ served' = served + 1
    /\ UNCHANGED <<build, catalog, invites, chats, linked, doneLog>>

\* GET /recommend up to its second await: weights and opts from the query
\* string, User.find()
RecommendFindUsers(p, q) ==
    /\ build \in Servers
    /\ Free(p)
    /\ Await(p, "rec_items",
             [NoCur EXCEPT !.op = "recommend", !.query = q,
                           !.docs = FindUsers(users)])
    /\ served' = served + 1
    /\ UNCHANGED <<build, catalog, invites, chats, linked, doneLog>>

\* Item.find(), recommendSwaps on the users read before and the items read
\* now, res.json(swaps)
RecommendFindItems(p) ==
    /\ pc[p] = "rec_items"
    /\ \E list \in HandlerSwaps(build, cur[p].query, cur[p].docs,
                                 FindItems(items)) :
          /\ Reply(p, [Response("recommend", 200, NoId, NoId, NoId, "none")
                         EXCEPT !.docs = list])
          /\ swaps' = list
    /\ desires' = HandlerDesires(build, cur[p].query, cur[p].docs,
                                 FindItems(items))
    /\ query' = cur[p].query
    /\ recommended' = TRUE
    /\ thrown' = FALSE
    /\ UNCHANGED <<build, served, invites, chats, linked, doneLog, users, items>>

\* Query strings and keywords of the read requests.
ReadQueries ==
    {Query(e, <<NoParam, NoParam, NoParam, NoParam>>,
           [priceTol |-> Param(200), priceMode |-> "interval"], "0") :
        e \in {"a"}}

SearchWords == {"", "book", "o"}

\* A read handler takes its next step.
ReadStep(p) ==
    \/ \E e \in {"a", Missing} : InvitesFindReceived(p, e)
    \/ InvitesFindSent(p)
    \/ \E e \in {"a", Missing} : ChatsFind(p, e)
    \/ \E c \in 1..(Len(chats) + 1) : MessagesFindById(p, c)
    \/ \E k \in SearchWords, e \in {Missing, "a"} : SearchFind(p, k, e)
    \/ \E q \in ReadQueries : RecommendFindUsers(p, q)
    \/ RecommendFindItems(p)

----------------------------------------------------------------------------
(* Specifications *)

Step(p) ==
    \/ \E body \in InviteBodies : InviteFindOne(p, body)
    \/ InviteCreate(p)
    \/ \E id \in 1..(Len(invites) + 1) : RejectFindById(p, id)
    \/ RejectSave(p)
    \/ \E id \in 1..(Len(invites) + 1) : AcceptFindById(p, id)
    \/ AcceptLookup(p)
    \/ AcceptSave(p)
    \/ AcceptFindOne(p)
    \/ AcceptCreate(p)
    \/ \E c \in 1..(Len(chats) + 1), s \in Emails \cup {Outsider, Missing},
           t \in Texts : MsgFindById(p, c, s, t)
    \/ MsgSave(p)
    \/ \E c \in 1..(Len(chats) + 1), e \in Emails \cup {Outsider, Missing} :
           DoneFindById(p, c, e)
    \/ DoneSave(p)

\* The client receives the response; the slot is free again.
Return(p) ==
    /\ pc[p] = "replied"
    /\ pc' = [pc EXCEPT ![p] = "idle"]
    /\ resp' = [resp EXCEPT ![p] = NoResp]
    /\ UNCHANGED <<build, catalog, served, invites, chats, cur, linked, doneLog>>

\* Requests overlap: any handler may take its next step.
Next == \E p \in Procs : Step(p) \/ Return(p)

Spec == Init /\ [][Next]_vars

\* Requests, writing and reading, run to completion one at a time.
Alone(p) == \A q \in Procs \ {p} : pc[q] = "idle"

SeqNext ==
    \E p \in Procs :
        \/ Alone(p) /\ \E body \in InviteBodies : InviteFindOne(p, body)
        \/ Alone(p) /\ InviteCreate(p)
        \/ Alone(p) /\ \E id \in 1..(Len(invites) + 1) : RejectFindById(p, id)
        \/ Alone(p) /\ RejectSave(p)
        \/ Alone(p) /\ \E id \in 1..(Len(invites) + 1) : AcceptFindById(p, id)
        \/ Alone(p) /\ AcceptLookup(p)
        \/ Alone(p) /\ AcceptSave(p)
        \/ Alone(p) /\ AcceptFindOne(p)
        \/ Alone(p) /\ AcceptCreate(p)
        \/ Alone(p) /\ \E c \in 1..(Len(chats) + 1),
                           s \in Emails \cup {Outsider, Missing},
                           t \in Texts : MsgFindById(p, c, s, t)
        \/ Alone(p) /\ MsgSave(p)
        \/ Alone(p) /\ \E c \in 1..(Len(chats) + 1),
                           e \in Emails \cup {Outsider, Missing} :
                           DoneFindById(p, c, e)
        \/ Alone(p) /\ DoneSave(p)
        \/ Alone(p) /\ ReadStep(p)
        \/ Alone(p) /\ Return(p)

SeqSpec == Init /\ [][SeqNext]_vars

----------------------------------------------------------------------------
(* The server started on a stored database.  The collections outlive the   *)
(* process: StoredSpec runs the invite and chat routes, requests           *)
(* overlapping, on the Invite collection that two create-invite calls      *)
(* leave behind.                                                           *)

StoredInvites ==
    <<NewInvite(Body("a", "b", "i1", "i2"), 1),
      NewInvite(Body("a", "a", "i1", "i2"), 2)>>

StoredInit ==
    /\ build \in Builds
    /\ invites = StoredInvites
    /\ chats = <<>>
    /\ pc = [p \in Procs |-> "idle"]
    /\ cur = [p \in Procs |-> NoCur]
    /\ resp = [p \in Procs |-> NoResp]
    /\ served = 0
    /\ linked = [i \in DOMAIN StoredInvites |-> NoId]
    /\ doneLog = <<>>
    /\ users = <<>>
    /\ items = <<>>
    /\ query = NoQuery
    /\ recommended = FALSE
    /\ swaps = <<>>
    /\ desires = <<>>
    /\ thrown = FALSE

StoredSpec == StoredInit /\ [][Next]_vars

----------------------------------------------------------------------------
(* GET /recommend on a catalog *)

RecInit ==
    /\ invites = <<>>
    /\ chats = <<>>
    /\ pc = [p \in Procs |-> "idle"]
    /\ cur = [p \in Procs |-> NoCur]
    /\ resp = [p \in Procs |-> NoResp]
    /\ served = 0
    /\ linked = <<>>
    /\ doneLog = <<>>
    /\ \/ /\ build \in Builds
          /\ users \in UserLists
          /\ items \in ItemLists
          /\ query \in Queries
       \/ /\ build \in Builds
          /\ users = ScenarioUsers
          /\ items = ScenarioItems
          /\ query \in ScenarioQueries
       \/ /\ build \in Servers
          /\ users = UnlocatedUsers
          /\ items = UnlocatedItems
          /\ query \in ScenarioQueries
       \/ /\ build = "module"
          /\ users \in UserLists
          /\ items \in ItemLists
          /\ query \in AllMatchesQueries
       \/ /\ build = "early"
          /\ users \in UserLists
          /\ items \in ItemLists
          /\ query \in EarlyQueries
    /\ recommended = FALSE
    /\ swaps = <<>>
    /\ desires = <<>>
    /\ thrown = FALSE

\* A call of recommendAllMatches of src/recommend.js on the catalog.
CallRecommendAllMatches ==
    /\ build = "module"
    /\ served < MaxCalls
    /\ served' = served + 1
    /\ recommended' = TRUE
    /\ thrown' = AllMatchesThrows(query.email, users, items)
    /\ IF thrown' THEN swaps' = <<>>
       ELSE swaps' \in RecommendAllMatches(query.email, users, items,
                                           query.preference)
    /\ desires' = AllMatchesDesireLog(query.email, users, items, query.preference)
    /\ UNCHANGED <<build, invites, chats, pc, cur, resp, linked, doneLog,
                   users, items, query>>

\* GET /recommend requests for the drawn query string, one at a time, and
\* calls of recommendAllMatches; no other request is made.
RecNext ==
    \/ \E p \in Procs :
          \/ Alone(p) /\ served < MaxCalls /\ RecommendFindUsers(p, query)
          \/ RecommendFindItems(p)
          \/ Return(p)
    \/ CallRecommendAllMatches

RecSpec == RecInit /\ [][RecNext]_vars

----------------------------------------------------------------------------
(* POST /registerUser, POST /upload and POST /debug/backfill-item-fields;  *)
(* UpSpec runs them, and GET /recommend, overlapping, on an empty and on a *)
(* stored catalog.                                                         *)

\* inferCategory of server.js (CATEGORY_KEYWORDS) for the titles of the model
InferCategoryByKeyword(title) ==
    IF title = "3c" THEN "electronics" ELSE "other"

RegisterBody(email, gps) == [email |-> email, gps |-> gps]

\* Request bodies of POST /registerUser; NoGps is a body without gps,
\* EmptyGps a body with gps: {}.
RegisterBodies ==
    {RegisterBody("a", Here), RegisterBody("b", Far), RegisterBody("a", NoGps),
     RegisterBody("b", EmptyGps), RegisterBody(Missing, Here)}

UploadBody(email, title, category, percent, price) ==
    [email |-> email, title |-> title, category |-> category,
     percent |-> percent, price |-> price]

\* Request bodies of POST /upload: owners a and b, an owner nobody
\* registers, and bodies with the owner or the title missing.
UploadBodies ==
    {UploadBody("a", "book", "book", 50, 100),
     UploadBody("b", "3c", NoCategory, 100, 200),
     UploadBody("z", "lamp", NoCategory, 100, 600),
     UploadBody(Missing, "book", "book", 50, 100),
     UploadBody("a", Missing, NoCategory, 50, 100)}

\* priceBandLabelByPrice of server.js: `${lo}-${hi - 1}`, `${lo}+` for the
\* last band
PriceBandLabel(price) ==
    CASE PriceBandIndex(price) = 0 -> "0-499"
      [] PriceBandIndex(price) = 1 -> "500-1999"
      [] PriceBandIndex(price) = 2 -> "2000-4999"
      [] PriceBandIndex(price) = 3 -> "5000-9999"
      [] OTHER -> "10000+"

\* the document the handler builds from the body: part_004 stores category
\* || "other" and the price band, server.js the inferred category and the
\* price band; part_005 names neither, and new Item applies the default of
\* the schema, category "other"
UploadedItem(b, body) ==
    IF b = "email"
    THEN Item(body.email, body.title,
              IF body.category = NoCategory THEN "other" ELSE body.category,
              body.percent, body.price, 0)
    ELSE IF b = "userId"
    THEN [Item(body.email, body.title, InferCategoryByKeyword(body.title),
               body.percent, body.price, 0)
             EXCEPT !.priceBand = PriceBandLabel(body.price)]
    ELSE [Item(body.email, body.title, "other", body.percent, body.price, 0)
             EXCEPT !.priceBand = Unset]

\* User.findOne({email}) finds a document
KnownUser(email) == \E i \in DOMAIN users : users[i].email = email

\* User.updateOne({userId}, {$set: {gps}}, {upsert: true})
Upsert(us, user) ==
    IF FindUser(us, user.email) = 0 THEN Append(us, user)
    ELSE [us EXCEPT ![FindUser(us, user.email)].gps = user.gps]

\* POST /registerUser up to its await.  In part_004 the statement
\* `$setset.email = email` throws a ReferenceError: the handler ends without
\* an answer and without a write.
RegisterUser(p, body) ==
    /\ Free(p)
    /\ IF body.email = Missing \/ ~body.gps.set
       THEN Reply(p, Response("register", 400, NoId, NoId, NoId, "none"))
       ELSE IF build = "email"
       THEN Reply(p, Response("register", NoId, NoId, NoId, NoId, "thrown"))
       ELSE Await(p, "reg_update",
                  [NoCur EXCEPT !.op = "register",
                                !.user = User(body.email, body.gps)])
    /\ served' = served + 1
    /\ UNCHANGED <<build, store, linked, doneLog, catalog>>

RegisterUpdate(p) ==
    /\ pc[p] = "reg_update"
    /\ users' = Upsert(users, cur[p].user)
    /\ Reply(p, Response("register", 200, NoId, NoId, NoId, "none"))
    /\ UNCHANGED <<build, store, served, linked, doneLog,
                   items, query, recommended, swaps, desires, thrown>>

\* POST /upload up to its first await: User.findOne in part_004, item.save
\* in server.js
UploadValidate(p, body) ==
    /\ Free(p)
    /\ IF body.email = Missing \/ body.title = Missing
       THEN Reply(p, Response("upload", 400, NoId, NoId, NoId, "none"))
       ELSE /\ Len(items) + InFlight({"up_find", "up_save"}) < MaxItems
            /\ Await(p, IF build = "email" THEN "up_find" ELSE "up_save",
                     [NoCur EXCEPT !.op = "upload", !.email = body.email,
                                   !.item = UploadedItem(build, body)])
    /\ served' = served + 1
    /\ UNCHANGED <<build, store, linked, doneLog, catalog>>

\* part_004: const user = await User.findOne({email}); if (!user) return 400
UploadFindOne(p) ==
    /\ pc[p] = "up_find"
    /\ IF KnownUser(cur[p].email)
       THEN Await(p, "up_save", cur[p])
       ELSE Reply(p, Response("upload", 400, NoId, NoId, NoId, "unknown"))
    /\ UNCHANGED <<build, store, served, linked, doneLog, catalog>>

\* Item.create(...) / item.save(), and the answer
UploadSave(p) ==
    /\ pc[p] = "up_save"
    /\ items' = Append(items, cur[p].item)
    /\ Reply(p, Response("upload", 200, Len(items) + 1, NoId, NoId, "none"))
    /\ UNCHANGED <<build, store, served, linked, doneLog,
                   users, query, recommended, swaps, desires, thrown>>

\* const need = !it.category || !it.priceBand, on a document of Item.find()
Need(it) == it.category = NoCategory \/ it.priceBand = Unset

\* the first document of docs from position i on that needs filling, 0 if
\* there is none
NextNeeding(docs, i) ==
    LET hits == {k \in i..Len(docs) : Need(docs[k])}
    IN  IF hits = {} THEN 0 ELSE Min(hits)

\* it.category = it.category || inferCategory(it.title, tags);
\* it.priceBand = it.priceBand || priceBandLabelByPrice(it.price || 0)
Filled(it) ==
    [it EXCEPT !.category = IF @ = NoCategory THEN InferCategory(it.title) ELSE @,
               !.priceBand = IF @ = Unset THEN PriceBandLabelByPrice(it.price)
                             ELSE @]

\* the loop from document i on, up to its next await it.save() or to
\* res.json({ok: true, updated})
BackfillLoop(p, docs, i, updated) ==
    LET k == IF i > Len(docs) THEN 0 ELSE NextNeeding(docs, i)
    IN  IF k = 0
        THEN Reply(p, [Response("backfill", 200, NoId, NoId, NoId, "none")
                         EXCEPT !.updated = updated])
        ELSE Await(p, "bf_save",
                   [NoCur EXCEPT !.op = "backfill", !.docs = docs, !.id = k,
                                 !.updated = updated])

\* POST /debug/backfill-item-fields (a route of part_004 only): Item.find()
\* and the loop up to the first save
BackfillFind(p) ==
    /\ build = "email"
    /\ Free(p)
    /\ BackfillLoop(p, FindItems(items), 1, 0)
    /\ served' = served + 1
    /\ UNCHANGED <<build, store, linked, doneLog, catalog>>

\* await it.save() of the document the loop stopped at: the category (a
\* default included) and the price band are written to the stored item;
\* updated++ and the loop goes on
BackfillSave(p) ==
    /\ pc[p] = "bf_save"
    /\ LET k == cur[p].id
           it == Filled(cur[p].docs[k])
       IN  items' = [items EXCEPT ![k].category = it.category,
                                  ![k].priceBand = it.priceBand]
    /\ BackfillLoop(p, cur[p].docs, cur[p].id + 1, cur[p].updated + 1)
    /\ UNCHANGED <<build, store, served, linked, doneLog,
                   users, query, recommended, swaps, desires, thrown>>

\* The catalogs the server starts with: none, one user, and two users with
\* an item stored before the schema had category and priceBand and an item
\* whose category is null.
StoredCatalogs ==
    {<<<<>>, <<>>>>,
     <<<<User("a", Here)>>, <<>>>>,
     <<<<User("a", Here), User("b", NoGps)>>,
       <<LegacyItem("a", "book", 50, 100, 0),
         Item("b", "phone", NoCategory, 100, 200, 0)>>>>}

\* The query string of the GET /recommend requests of UpSpec.
UpQueries ==
    {Query("a", <<NoParam, NoParam, NoParam, NoParam>>,
           [priceTol |-> Param(200), priceMode |-> "diff"], "0")}

UpInit ==
    /\ build \in Servers
    /\ invites = <<>>
    /\ chats = <<>>
    /\ pc = [p \in Procs |-> "idle"]
    /\ cur = [p \in Procs |-> NoCur]
    /\ resp = [p \in Procs |-> NoResp]
    /\ served = 0
    /\ linked = <<>>
    /\ doneLog = <<>>
    /\ \E c \in StoredCatalogs : users = c[1] /\ items = c[2]
    /\ query = NoQuery
    /\ recommended = FALSE
    /\ swaps = <<>>
    /\ desires = <<>>
    /\ thrown = FALSE

UpNext ==
    \E p \in Procs :
        \/ \E body \in RegisterBodies : RegisterUser(p, body)
        \/ RegisterUpdate(p)
        \/ \E body \in UploadBodies : UploadValidate(p, body)
        \/ UploadFindOne(p)
        \/ UploadSave(p)
        \/ BackfillFind(p)
        \/ BackfillSave(p)
        \/ \E q \in UpQueries : RecommendFindUsers(p, q)
        \/ RecommendFindItems(p)
        \/ Return(p)

UpSpec == UpInit /\ [][UpNext]_vars

----------------------------------------------------------------------------
(* ReadSpec: the read operations of part_004 run, overlapping, between and *)
(* during the writing requests, on a stored catalog.                       *)

\* The catalog the read operations run on.
ReadUsers == <<User("a", Here), User("b", NoGps)>>

ReadItems ==
    <<Item("a", "book", "book", 50, 100, 0),
      LegacyItem("b", "book", 0, 100, 5)>>

\* Request bodies of the POST /registerUser and POST /upload requests that
\* run beside the reads.
ReadRegisterBodies == {RegisterBody("a", Here), RegisterBody(Missing, Here)}

ReadUploadBodies ==
    {UploadBody("b", "phone", "phone", 100, 200),
     UploadBody("z", "lamp", NoCategory, 100, 600)}

\* Request bodies of the POST /invite requests that run beside the reads.
ReadInviteBodies == {Body("a", "b", "i1", "i2"), Body("a", "b", "i2", "i1")}

\* The revision run is part_004, which has all five read routes.
ReadInit ==
    /\ build = "email"
    /\ invites = <<>>
    /\ chats = <<>>
    /\ pc = [p \in Procs |-> "idle"]
    /\ cur = [p \in Procs |-> NoCur]
    /\ resp = [p \in Procs |-> NoResp]
    /\ served = 0
    /\ linked = <<>>
    /\ doneLog = <<>>
    /\ users = ReadUsers
    /\ items = ReadItems
    /\ query = NoQuery
    /\ recommended = FALSE
    /\ swaps = <<>>
    /\ desires = <<>>
    /\ thrown = FALSE

\* Requests overlap: any handler of part_004, reading or writing, may take
\* its next step.  POST /registerUser of part_004 ends before its await, and
\* its accept handler has no lookup step.
ReadNext ==
    \E p \in Procs :
        \/ ReadStep(p)
        \/ \E body \in ReadInviteBodies : InviteFindOne(p, body)
        \/ InviteCreate(p)
        \/ \E id \in DOMAIN invites : RejectFindById(p, id)
        \/ RejectSave(p)
        \/ \E id \in DOMAIN invites : AcceptFindById(p, id)
        \/ AcceptSave(p)
        \/ AcceptFindOne(p)
        \/ AcceptCreate(p)
        \/ \E c \in DOMAIN chats, e \in Emails, t \in Texts : MsgFindById(p, c, e, t)
        \/ MsgSave(p)
        \/ \E c \in DOMAIN chats, e \in Emails : DoneFindById(p, c, e)
        \/ DoneSave(p)
        \/ \E body \in ReadRegisterBodies : RegisterUser(p, body)
        \/ \E body \in ReadUploadBodies : UploadValidate(p, body)
        \/ UploadFindOne(p)
        \/ UploadSave(p)
        \/ BackfillFind(p)
        \/ BackfillSave(p)
        \/ Return(p)

ReadSpec == ReadInit /\ [][ReadNext]_vars

----------------------------------------------------------------------------
(* Properties *)

SameTuple(x, y) ==
    /\ x.fromEmail = y.fromEmail
    /\ x.toEmail = y.toEmail
    /\ x.fromItemId = y.fromItemId
    /\ x.toItemId = y.toItemId

\* The key of a chat: its unordered member pair and its item pair.
ChatKey(c) ==
    <<Elems(chats[c].members), chats[c].pair.fromItemId, chats[c].pair.toItemId>>

\* The chat key an invite maps to.
InviteChatKey(i) ==
    <<{invites[i].fromEmail, invites[i].toEmail},
      invites[i].fromItemId, invites[i].toItemId>>

\* The step in which slot p answers a request of kind op.
Answers(p, op) ==
    /\ pc[p] # "replied"
    /\ pc'[p] = "replied"
    /\ resp'[p].op = op

\* C1: when the calls run one at a time, no two pending invites carry the
\* same (from, to, fromItem, toItem) tuple.
C1_OnePendingPerTuple ==
    \A i, j \in DOMAIN invites :
        (i # j /\ invites[i].status = "pending" /\ invites[j].status = "pending")
            => ~SameTuple(invites[i], invites[j])

\* C1 witness: a tuple was invited twice (the first invite no longer
\* pending) and a further create-invite was answered with the pending one.
C1_Witness ==
    /\ \E i, j \in DOMAIN invites :
           i # j /\ SameTuple(invites[i], invites[j])
    /\ \E p \in Procs :
           /\ pc[p] = "replied"
           /\ resp[p].op = "invite"
           /\ resp[p].was = "pending"
           /\ resp[p].inviteId \in DOMAIN invites

\* C2: with overlapping create-invite calls, every tuple still has at most
\* one pending invite.
C2_OnePendingPerTupleConcurrent ==
    \A body \in InviteBodies : Cardinality(PendingMatches(body)) <= 1

\* C3: with overlapping accept-invite calls, no two chats have the same
\* (member pair, fromItemId, toItemId) key.
C3_OneChatPerKeyConcurrent ==
    \A k \in {ChatKey(c) : c \in DOMAIN chats} :
        Cardinality({c \in DOMAIN chats : ChatKey(c) = k}) = 1

\* C4: once the two members of a chat have each had one confirm-done call
\* answered, and no other confirm-done call was made on the chat, the chat
\* is closed, both identities are in the confirmation set and closedAt was
\* written exactly once.
C4_BothConfirmCloses ==
    \A c \in DOMAIN chats :
        ( /\ chats[c].members[1] # chats[c].members[2]
          /\ Len(doneLog[c]) = 2
          /\ Elems(doneLog[c]) = Elems(chats[c].members)
          /\ \A p \in Procs : ~(pc[p] = "done_save" /\ cur[p].id = c) )
        => ( /\ chats[c].closed
             /\ Elems(chats[c].members) \subseteq Elems(chats[c].doneConfirmations)
             /\ chats[c].closedAt = 1 )

\* C5: when the calls run one at a time, a chat is closed if and only if
\* every member is in its confirmation set.
C5_ClosedIffAllConfirmed ==
    \A c \in DOMAIN chats :
        chats[c].closed <=>
            (\A i \in DOMAIN chats[c].members :
                \E j \in DOMAIN chats[c].doneConfirmations :
                    chats[c].doneConfirmations[j] = chats[c].members[i])

\* C5 witness: a chat of two different members holds both confirmations and
\* is closed, and the confirm-done call that closed it has just been answered.
C5_Witness ==
    \E c \in DOMAIN chats, p \in Procs :
        /\ chats[c].members[1] # chats[c].members[2]
        /\ chats[c].closed
        /\ Len(chats[c].doneConfirmations) = 2
        /\ pc[p] = "replied"
        /\ resp[p].op = "done"
        /\ resp[p].id = c
        /\ resp[p].closed

\* C6: an invite that is accepted or rejected keeps its status in every step.
C6_StatusTerminal ==
    [][\A i \in DOMAIN invites :
          invites[i].status # "pending" => invites'[i].status = invites[i].status]_vars

\* C7: accept-invite on an invite read as rejected answers success without a
\* chat id, and the call leaves the invite rejected and the chats as they were.
C7_AcceptRejectedIsNoOp ==
    [][\A p \in Procs :
          (Answers(p, "accept") /\ resp'[p].was = "rejected")
              => /\ resp'[p].code = 200
                 /\ resp'[p].chatId = NoId
                 /\ invites'[resp'[p].id].status = "rejected"
                 /\ chats' = chats]_vars

\* C8: accept-invite on an invite read as accepted answers with the chat id
\* its first acceptance answered with, and leaves the chats as they were.
C8_RepeatAcceptSameChat ==
    [][\A p \in Procs :
          (Answers(p, "accept") /\ resp'[p].was = "accepted")
              => /\ resp'[p].chatId # NoId
                 /\ resp'[p].chatId = linked[resp'[p].id]
                 /\ chats' = chats]_vars

\* C9: when the calls run one at a time, no two chats have the same
\* (member pair, fromItemId, toItemId) key.
C9_OneChatPerKey ==
    \A c, d \in DOMAIN chats : c # d => ChatKey(c) # ChatKey(d)

\* C9 witness: two invites with the same chat key are both accepted, the
\* second acceptance has just been answered, and one chat serves both.
C9_Witness ==
    \E i, j \in DOMAIN invites, p \in Procs :
        /\ i # j
        /\ InviteChatKey(i) = InviteChatKey(j)
        /\ invites[i].status = "accepted"
        /\ invites[j].status = "accepted"
        /\ linked[i] # NoId
        /\ linked[i] = linked[j]
        /\ pc[p] = "replied"
        /\ resp[p].op = "accept"
        /\ resp[p].id = j
        /\ resp[p].chatId = linked[i]

\* C10: the message log of a closed chat does not grow in any step.
C10_NoMessageAfterClose ==
    [][\A c \in DOMAIN chats :
          chats[c].closed => chats'[c].messages = chats[c].messages]_vars

\* C11: a post-message call with its fields present that reads a closed chat
\* is answered 403 and changes no chat (message log, confirmation set and
\* closed flag stay as they were).
C11_PostToClosedForbidden ==
    [][\A p \in Procs : \A c \in DOMAIN chats, s \in Emails, t \in Texts :
          (MsgFindById(p, c, s, t) /\ chats[c].closed)
              => /\ Answers(p, "message")
                 /\ resp'[p].code = 403
                 /\ chats' = chats]_vars

\* C11 witness: a post-message call on a closed chat has just been answered
\* 403; the chat holds its members' confirmations.
C11_Witness ==
    \E p \in Procs :
        /\ pc[p] = "replied"
        /\ resp[p].op = "message"
        /\ resp[p].code = 403
        /\ resp[p].id \in DOMAIN chats
        /\ chats[resp[p].id].closed
        /\ chats[resp[p].id].doneConfirmations # <<>>

\* C12: a create-invite call whose tuple has a pending invite is answered
\* with the id of a pending invite of that tuple, and the invite store is
\* left exactly as it was.
C12_CreateInviteIdempotent ==
    [][\A p \in Procs : \A body \in InviteBodies :
          ( /\ InviteFindOne(p, body)
            /\ body.fromEmail # Missing
            /\ PendingMatches(body) # {} )
              => /\ Answers(p, "invite")
                 /\ resp'[p].code = 200
                 /\ resp'[p].inviteId \in PendingMatches(body)
                 /\ invites' = invites]_vars

\* C12 witness: the only invite of the store is pending and a second
\* create-invite call has just been answered with its id.
C12_Witness ==
    \E p \in Procs :
        /\ Len(invites) = 1
        /\ invites[1].status = "pending"
        /\ pc[p] = "replied"
        /\ resp[p].op = "invite"
        /\ resp[p].was = "pending"
        /\ resp[p].inviteId = 1

\* C13: a confirm-done call by a member that reads the chat as already closed
\* leaves closedAt and closed of that chat as they were.
C13_ClosedAtWrittenOnce ==
    [][\A p \in Procs :
          (Answers(p, "done") /\ resp'[p].code = 200 /\ resp'[p].was = "closed")
              => /\ chats'[resp'[p].id].closedAt = chats[resp'[p].id].closedAt
                 /\ chats'[resp'[p].id].closed = chats[resp'[p].id].closed]_vars

\* C14: a confirm-done call with an identity that is not a member of the chat
\* is answered 403 and changes no chat.
C14_NonMemberConfirmForbidden ==
    [][\A p \in Procs :
       \A c \in DOMAIN chats, e \in Emails \cup {Outsider} :
          (DoneFindById(p, c, e) /\ e \notin Elems(chats[c].members))
              => /\ Answers(p, "done")
                 /\ resp'[p].code = 403
                 /\ chats' = chats]_vars

\* C14 witness: a confirm-done call on a chat of two different members, one
\* of whom has confirmed, has just been answered 403.
C14_Witness ==
    \E p \in Procs :
        /\ pc[p] = "replied"
        /\ resp[p].op = "done"
        /\ resp[p].code = 403
        /\ resp[p].id \in DOMAIN chats
        /\ chats[resp[p].id].members[1] # chats[resp[p].id].members[2]
        /\ Len(chats[resp[p].id].doneConfirmations) = 1

\* C15: the confirmation set of a chat never holds the same identity twice.
C15_ConfirmationsAreASet ==
    \A c \in DOMAIN chats :
        Cardinality(Elems(chats[c].doneConfirmations))
            = Len(chats[c].doneConfirmations)

\* C16: a reject-invite call that reads an invite that is not pending is
\* answered 200 and changes neither the invites nor the chats; one that read
\* a pending invite is answered 200, leaves that invite rejected, every other
\* invite as it was and the chats as they were.
C16_RejectFrame ==
    [][\A p \in Procs :
          /\ \A id \in DOMAIN invites :
                (RejectFindById(p, id) /\ invites[id].status # "pending")
                    => /\ Answers(p, "reject")
                       /\ resp'[p].code = 200
                       /\ store' = store
          /\ (Answers(p, "reject") /\ resp'[p].code = 200)
                => IF resp'[p].was # "pending"
                   THEN store' = store
                   ELSE /\ invites' = [invites EXCEPT
                                          ![resp'[p].id].status = "rejected"]
                        /\ chats' = chats]_vars

\* C16 witness: a reject-invite call on an accepted invite, whose chat
\* exists, has just been answered.
C16_Witness ==
    \E p \in Procs :
        /\ pc[p] = "replied"
        /\ resp[p].op = "reject"
        /\ resp[p].code = 200
        /\ resp[p].was = "accepted"
        /\ invites[resp[p].id].status = "accepted"
        /\ chats # <<>>

\* C17: a call answered 400 (a required field missing) or 404 (the id does
\* not resolve) is answered in its first step and leaves the invites and the
\* chats as they were.
C17_ErrorsLeaveStore ==
    [][\A p \in Procs :
          ( /\ pc[p] # "replied"
            /\ pc'[p] = "replied"
            /\ resp'[p].code \in {400, 404} )
              => /\ pc[p] = "idle"
                 /\ store' = store]_vars

\* C17 witness: with an invite and a chat in the store, one call has just
\* been answered 400 and another 404.
C17_Witness ==
    \E p, q \in Procs :
        /\ invites # <<>>
        /\ chats # <<>>
        /\ pc[p] = "replied"
        /\ resp[p].code = 400
        /\ pc[q] = "replied"
        /\ resp[q].code = 404

\* x lies exactly half way between two multiples of 1/1000
HalfWay(x) ==
    /\ ~IsNaN(x)
    /\ (2000 * x[1]) % x[2] = 0
    /\ ((2000 * Abs(x[1])) \div x[2]) % 2 = 1

\* x is a multiple of 1/64, which a double holds exactly
Dyadic(x) == ~IsNaN(x) /\ 64 % x[2] = 0

\* Every value handed to toFixed(3) that lies half way between two multiples
\* of 1/1000 is one the floating-point computation yields exactly, so that
\* rounding the exact value is rounding the double.  The weights and the
\* damage, rating and distance scores of the model are dyadic: a dyadic
\* result of evaluateDesire then has a dyadic price term and every
\* intermediate value is exact; a matchScore is exact when both its scores
\* are dyadic.
TieFree ==
    /\ \A j \in DOMAIN desires : HalfWay(desires[j]) => Dyadic(desires[j])
    /\ \A j \in DOMAIN desires :
          (j % 2 = 0 /\ HalfWay(Over(Plus(desires[j - 1], desires[j]), Frac(2, 1))))
              => Dyadic(desires[j - 1]) /\ Dyadic(desires[j])
    /\ \A f \in {"price", "distance", "rating", "damage"} :
          Dyadic(Weights(query)[f])

\* C18: in every record GET /recommend answers with, the item from belongs
\* to the requester and the item to belongs to somebody else.
C18_RecordOwners ==
    recommended =>
        \A k \in DOMAIN swaps :
            /\ items[swaps[k].from].email = query.email
            /\ items[swaps[k].to].email # query.email

\* C18 witness: the answer holds records whose candidate items belong to two
\* different users, neither of them the requester.
C18_Witness ==
    /\ recommended
    /\ \E j, k \in DOMAIN swaps :
           items[swaps[j].to].email # items[swaps[k].to].email

\* C19: in the list GET /recommend answers with, the emitted matchScore of
\* each record is at least the emitted matchScore of the record after it.
C19_SortedByMatchScore ==
    recommended =>
        \A k \in 1..(Len(swaps) - 1) :
            Leq(swaps[k + 1].matchScore, swaps[k].matchScore)

\* C20: every value evaluateDesire returns lies in [0, 1].
C20_DesireInUnitInterval ==
    \A j \in DOMAIN desires :
        Leq(Zero, desires[j]) /\ Leq(desires[j], One)

\* C21: the weight vector GET /recommend hands to recommendSwaps sums to 1,
\* unless the four raw weights of the request are all 0: then it is the zero
\* vector.
C21_WeightsSumToOne ==
    recommended =>
        LET raw == RawWeights(query)
            w == Weights(query)
        IN  IF raw.price = 0 /\ raw.distance = 0 /\ raw.rating = 0 /\ raw.damage = 0
            THEN w.price = Zero /\ w.distance = Zero /\ w.rating = Zero
                 /\ w.damage = Zero
            ELSE Plus(Plus(Plus(w.price, w.distance), w.rating), w.damage) = One

\* The catalog and the request are those of the worked example.
Scenario ==
    /\ users = ScenarioUsers
    /\ items = ScenarioItems
    /\ query \in ScenarioQueries

\* C22: on the catalog of the worked example (A: price 100 at condition 80,
\* B: price 120 at condition 60, no locations; weights price 50, damage 50;
\* price mode diff) the price score is 5/6 in both directions, evaluateDesire
\* of either revision returns 0.5 * 0.60 + 0.5 * 5/6 for A and
\* 0.5 * 0.80 + 0.5 * 5/6 for B, and every GET /recommend call for A that
\* scores in diff mode, the first and each repetition, answers with the one
\* record (item 1, item 2, 0.717, 0.817, 0.767).
C22_WorkedExample ==
    [][(Scenario /\ \E p \in Procs : RecommendFindItems(p)) =>
          LET diff == [Opts(build, query) EXCEPT !.priceMode = "diff"]
              w == Weights(query)
              half == Frac(1, 2)
              scoreFrom == Plus(Times(half, Frac(60, 100)), Times(half, Frac(5, 6)))
              scoreTo == Plus(Times(half, Frac(80, 100)), Times(half, Frac(5, 6)))
          IN  /\ \A b \in Builds :
                    /\ PriceScore(b, items[2], items[1], diff) = Frac(5, 6)
                    /\ PriceScore(b, items[1], items[2], diff) = Frac(5, 6)
                    /\ EvaluateDesire(b, users, users[1], items[2], items[1], w, diff)
                           = scoreFrom
                    /\ EvaluateDesire(b, users, users[2], items[1], items[2], w, diff)
                           = scoreTo
              /\ Opts(build, query).priceMode = "diff" =>
                    /\ desires' = <<scoreFrom, scoreTo>>
                    /\ swaps' = <<[from |-> 1, to |-> 2,
                                   scoreA |-> Frac(717, 1000),
                                   scoreB |-> Frac(817, 1000),
                                   matchScore |-> Frac(767, 1000)]>>]_vars

\* C23: a recommendation call for a requester who is not in the user list
\* returns the empty list and raises no error.
C23_UnknownRequesterEmptyList ==
    (recommended /\ FindUser(users, query.email) = 0)
        => (swaps = <<>> /\ ~thrown)

\* C24: every stored item is owned by a user of the directory (an upload
\* naming an owner the directory does not hold having been rejected).
C24_ItemOwnersRegistered ==
    \A i \in DOMAIN items : KnownUser(items[i].email)

\* C25: a post-message call with a sender and a text that reads an open chat
\* is not refused, whether or not the sender is a member of the chat; the
\* handler then answers 200 and its save appends the one message, with that
\* sender and text, at the end of the log of that chat.
C25_PostNeedsNoMembership ==
    [][\A p \in Procs :
          /\ \A c \in DOMAIN chats, s \in Emails \cup {Outsider}, t \in Texts :
                (MsgFindById(p, c, s, t) /\ ~chats[c].closed)
                    => /\ pc'[p] = "msg_save"
                       /\ cur'[p].id = c
                       /\ cur'[p].email = s
                       /\ cur'[p].text = t
                       /\ chats' = chats
          /\ (pc[p] = "msg_save" /\ pc'[p] # "msg_save")
                => /\ Answers(p, "message")
                   /\ resp'[p].code = 200
                   /\ chats' = [chats EXCEPT ![cur[p].id].messages =
                                   Append(@, NewMessage(cur[p].email, cur[p].text,
                                                        cur[p].at))]]_vars

\* C25 witness: a post-message call has just been answered 200 and the last
\* message of the chat is from a sender who is not one of its members.
C25_Witness ==
    \E p \in Procs :
        /\ pc[p] = "replied"
        /\ resp[p].op = "message"
        /\ resp[p].code = 200
        /\ LET log == chats[resp[p].id].messages
           IN  /\ log # <<>>
               /\ log[Len(log)].senderEmail
                      \notin Elems(chats[resp[p].id].members)

\* s is an initial part of t
IsPrefix(s, t) == Len(s) <= Len(t) /\ SubSeq(t, 1, Len(s)) = s

\* C26: no step removes a chat or removes, reorders or rewrites a message:
\* the log of every chat before the step is an initial part of its log after
\* the step; and the step in which a post-message call is answered 200
\* lengthens the log of its chat by exactly one message.
C26_LogAppendOnly ==
    [][/\ Len(chats) <= Len(chats')
       /\ \A c \in DOMAIN chats : IsPrefix(chats[c].messages, chats'[c].messages)
       /\ \A p \in Procs :
             (Answers(p, "message") /\ resp'[p].code = 200)
                 => Len(chats'[resp'[p].id].messages)
                        = Len(chats[resp'[p].id].messages) + 1]_vars

\* C26 witness: a post-message call on a chat that already held a message
\* of another sender has just been answered 200.
C26_Witness ==
    \E p \in Procs :
        /\ pc[p] = "replied"
        /\ resp[p].op = "message"
        /\ resp[p].code = 200
        /\ Len(chats[resp[p].id].messages) = 2
        /\ chats[resp[p].id].messages[1].senderEmail
               # chats[resp[p].id].messages[2].senderEmail

\* C27: no step removes a chat, reopens a closed chat or takes an identity
\* out of the confirmations of a chat.
C27_ClosedTerminalConfirmationsGrow ==
    [][/\ Len(chats) <= Len(chats')
       /\ \A c \in DOMAIN chats :
             /\ chats[c].closed => chats'[c].closed
             /\ Elems(chats[c].doneConfirmations)
                    \subseteq Elems(chats'[c].doneConfirmations)]_vars

\* C27 witness: a chat holds the confirmations of its two different members
\* and is closed, and the call that closed it has returned.
C27_Witness ==
    /\ \A p \in Procs : pc[p] = "idle"
    /\ \E c \in DOMAIN chats :
           /\ chats[c].closed
           /\ Cardinality(Elems(chats[c].doneConfirmations)) = 2

\* The handler of the running revision scores in tolerance mode.
ToleranceMode == build \in Builds /\ Opts(build, query).priceMode = "tolerance"

\* C28: when GET /recommend scores in tolerance mode with tolerance T, the
\* prices of the two items of every record it answers with differ by at most
\* T (by nothing when T = 0).
C28_WithinTolerance ==
    (recommended /\ ToleranceMode) =>
        \A k \in DOMAIN swaps :
            Abs(items[swaps[k].from].price - items[swaps[k].to].price)
                <= Opts(build, query).priceTol

\* C28 witness: with a tolerance above 0 the answer holds a record of two
\* items of different prices, and the catalog holds an item of the requester
\* and an item of another user whose prices differ by more than the tolerance.
C28_Witness ==
    /\ recommended
    /\ ToleranceMode
    /\ Opts(build, query).priceTol > 0
    /\ \E k \in DOMAIN swaps : items[swaps[k].from].price # items[swaps[k].to].price
    /\ \E i, j \in DOMAIN items :
           /\ items[i].email = query.email
           /\ items[j].email # query.email
           /\ KnownUser(items[j].email)
           /\ Abs(items[i].price - items[j].price) > Opts(build, query).priceTol

\* The category the filter is meant to compare: the stored category if there
\* is one, otherwise the label the revision's classifier gives the title.
ResolvedCategory(b, item) ==
    IF item.category \notin {NoCategory, Unset} THEN item.category
    ELSE IF b = "email" THEN InferCategory(item.title)
    ELSE InferCategoryByKeyword(item.title)

\* The catalog its with every stored category removed and every title the same.
Uncategorised(its) ==
    [i \in DOMAIN its |-> [its[i] EXCEPT !.category = NoCategory, !.title = "book"]]

\* C29: with useCategory on, the two items of every record GET /recommend
\* answers with have the same resolved category; with useCategory off, the
\* answer pairs the same items as it does on the catalog stripped of its
\* categories.
C29_CategoryFilter ==
    (recommended /\ build \in Builds) =>
        IF Opts(build, query).useCategory
        THEN \A k \in DOMAIN swaps :
                 ResolvedCategory(build, items[swaps[k].from])
                     = ResolvedCategory(build, items[swaps[k].to])
        ELSE {<<swaps[k].from, swaps[k].to>> : k \in DOMAIN swaps}
                 = {<<t.ia, t.ib>> :
                       t \in Elems(Candidates(build, query.email, users,
                                              Uncategorised(items),
                                              Opts(build, query)))}

\* The (own item, candidate item) pairs a complete answer holds: the own item
\* belongs to the requester, the candidate to another user of the user list,
\* and the pair passes the category filter (when useCategory is on) and the
\* price filter (in tolerance mode).
Admissible ==
    {pair \in (DOMAIN items) \X (DOMAIN items) :
        /\ items[pair[1]].email = query.email
        /\ items[pair[2]].email # query.email
        /\ KnownUser(items[pair[2]].email)
        /\ Opts(build, query).useCategory =>
              ResolvedCategory(build, items[pair[1]])
                  = ResolvedCategory(build, items[pair[2]])
        /\ ToleranceMode =>
              Abs(items[pair[1]].price - items[pair[2]].price)
                  <= Opts(build, query).priceTol}

\* C30: for a requester of the user list, the answer of GET /recommend holds
\* one record, and only one, for every admissible pair, and no other record.
C30_CompleteAndDuplicateFree ==
    (recommended /\ build \in Builds /\ KnownUser(query.email)) =>
        /\ {<<swaps[k].from, swaps[k].to>> : k \in DOMAIN swaps} = Admissible
        /\ Len(swaps) = Cardinality(Admissible)

\* evaluateDesire of revision b
Desire(b, us, user, targetItem, ownItem, weights, opts) ==
    IF b = "early"
    THEN EvaluateDesireOrZero(us, user, targetItem, ownItem, weights)
    ELSE EvaluateDesire(b, us, user, targetItem, ownItem, weights, opts)

\* The arguments of the evaluateDesire calls of one recommendSwaps call of
\* revision b, in call order: evaluator, target item, own item.
DesireCalls(b, currentEmail, us, its, opts) ==
    IF FindUser(us, currentEmail) = 0 THEN <<>>
    ELSE LET userA == us[FindUser(us, currentEmail)]
             cands == Candidates(b, currentEmail, us, its, opts)
             call(j) ==
                 LET t == cands[(j + 1) \div 2]
                 IN  IF j % 2 = 1
                     THEN [user |-> userA, target |-> its[t.ib], own |-> its[t.ia]]
                     ELSE [user |-> us[t.ub], target |-> its[t.ia], own |-> its[t.ib]]
         IN  [j \in 1..(2 * Len(cands)) |-> call(j)]

\* (damage weight * damage score + rating weight * rating score +
\*  price weight * price score) / (sum of the three weights, or 1 when 0)
WithoutDistance(b, targetItem, ownItem, weights, opts) ==
    Over(Plus(Plus(Times(weights.damage, Frac(targetItem.condition, 100)),
                   Times(weights.rating, RatingScore(b, targetItem))),
              Times(weights.price, PriceScore(b, targetItem, ownItem, opts))),
         OrOne(Plus(Plus(weights.damage, weights.rating), weights.price)))

\* C31: in every revision of the server, each evaluateDesire call of a GET
\* /recommend request whose evaluator or whose target item's owner has no
\* known location returns the weighted sum of the damage, rating and price
\* scores divided by the sum of those three weights (by 1 when that sum is
\* 0), and returns the same value under any other distance weight.
C31_NoLocationIgnoresDistanceWeight ==
    (recommended /\ build \in Servers) =>
        LET w == WeightsOf(build, query)
            opts == OptsOf(build, query)
            us == FindUsers(users)
            calls == DesireCalls(build, query.email, us, FindItems(items), opts)
        IN  \A j \in DOMAIN calls :
                NoDistance(EvaluatorLocation(build, us, calls[j].user),
                           UserLocation(us, calls[j].target.email)) =>
                    /\ desires[j] = WithoutDistance(build, calls[j].target,
                                                    calls[j].own, w, opts)
                    /\ \A d \in {Zero, One, Frac(-1, 2)} :
                          Desire(build, us, calls[j].user, calls[j].target,
                                 calls[j].own, [w EXCEPT !.distance = d], opts)
                              = desires[j]

ReadOps == {"invites", "chats", "messages", "search", "recommend"}

\* The step is one of a read operation running in slot p.
Reads(p) ==
    /\ pc'[p] # pc[p]
    /\ cur'[p].op \in ReadOps \/ resp'[p].op \in ReadOps

\* C32: every step of GET /recommend, GET /items/search, GET /invites,
\* GET /chats and GET /chats/:chatId/messages, whatever the request and
\* the answer, leaves the users, the items, the invites and the chats as
\* they were.
C32_ReadsLeaveStore ==
    [][(\E p \in Procs : Reads(p)) =>
          UNCHANGED <<users, items, invites, chats>>]_vars

\* C32 witness: with an invite and a chat stored, GET /invites has answered
\* with a list that holds an invite sent and GET /chats with a list that
\* holds a chat.
C32_Witness ==
    /\ invites # <<>>
    /\ chats # <<>>
    /\ \E p, q \in Procs :
          /\ pc[p] = "replied" /\ resp[p].op = "invites"
          /\ resp[p].code = 200 /\ resp[p].docs[1].sent # <<>>
          /\ pc[q] = "replied" /\ resp[q].op = "chats"
          /\ resp[q].code = 200 /\ resp[q].docs # <<>>

\* C33: a create-invite call with a complete tuple that no pending invite
\* carries, whatever the accepted and rejected invites of that tuple, goes on
\* to create an invite; the creation stores one new invite with status
\* pending and the tuple of the request under an id that no invite had, and
\* leaves every other invite and every chat as it was.
C33_CreateInviteFresh ==
    [][\A p \in Procs :
          /\ \A body \in InviteBodies :
                ( /\ InviteFindOne(p, body)
                  /\ Missing \notin {body.fromEmail, body.toEmail,
                                     body.fromItemId, body.toItemId}
                  /\ ~\E i \in DOMAIN invites :
                         invites[i].status = "pending" /\ SameTuple(invites[i], body) )
                    => /\ pc'[p] = "inv_create"
                       /\ cur'[p].body = body
                       /\ UNCHANGED <<invites, chats>>
          /\ (pc[p] = "inv_create" /\ pc'[p] # "inv_create")
                => LET id == resp'[p].inviteId
                   IN  /\ Answers(p, "invite")
                       /\ resp'[p].code = 200
                       /\ id \notin DOMAIN invites
                       /\ DOMAIN invites' = DOMAIN invites \cup {id}
                       /\ invites'[id].status = "pending"
                       /\ SameTuple(invites'[id], cur[p].body)
                       /\ \A i \in DOMAIN invites : invites'[i] = invites[i]
                       /\ chats' = chats]_vars

\* C33 witness: a create-invite call has just been answered with the id of a
\* new pending invite whose tuple an earlier invite carries, one rejected or
\* accepted.
C33_Witness ==
    \E p \in Procs : \E i, j \in DOMAIN invites :
        /\ i < j
        /\ SameTuple(invites[i], invites[j])
        /\ invites[i].status \in {"accepted", "rejected"}
        /\ invites[j].status = "pending"
        /\ pc[p] = "replied"
        /\ resp[p].op = "invite"
        /\ resp[p].was = "none"
        /\ resp[p].inviteId = j

\* C34: in every state, also when accept-invite and reject-invite calls on
\* one invite overlap, every chat has an invite with status accepted whose
\* two parties are the chat's members and whose item pair is the chat's.
C34_ChatHasAcceptedInvite ==
    \A c \in DOMAIN chats : \E i \in DOMAIN invites :
        /\ invites[i].status = "accepted"
        /\ {invites[i].fromEmail, invites[i].toEmail} = Elems(chats[c].members)
        /\ invites[i].fromItemId = chats[c].pair.fromItemId
        /\ invites[i].toItemId = chats[c].pair.toItemId

\* C35: every accept-invite call answered with success on an invite it read
\* as pending or accepted, whatever other accept-invite calls overlap it,
\* carries the id of a stored chat whose members are the invite's parties and
\* whose item pair is the invite's.
C35_AcceptAnswersWithChat ==
    \A p \in Procs :
        ( /\ pc[p] = "replied"
          /\ resp[p].op = "accept"
          /\ resp[p].code = 200
          /\ resp[p].was \in {"pending", "accepted"} )
            => /\ resp[p].chatId \in DOMAIN chats
               /\ Elems(chats[resp[p].chatId].members)
                     = {invites[resp[p].id].fromEmail, invites[resp[p].id].toEmail}
               /\ chats[resp[p].chatId].pair.fromItemId = invites[resp[p].id].fromItemId
               /\ chats[resp[p].chatId].pair.toItemId = invites[resp[p].id].toItemId

\* The chats stored under the key of invite i.
ChatsOfKey(i) == {c \in DOMAIN chats : ChatKey(c) = InviteChatKey(i)}

\* C36: no step of an accept-invite call changes a chat that exists, and a
\* call that has saved its acceptance and finds a chat stored under the
\* invite's key answers with a chat of that key, creating none: the chat
\* it answers with keeps its messages, confirmations, closed and closedAt.
C36_AcceptKeepsExistingChat ==
    [][\A p \in Procs :
          /\ (pc'[p] # pc[p] /\ (cur[p].op = "accept" \/ cur'[p].op = "accept"
                                 \/ resp'[p].op = "accept"))
                => \A c \in DOMAIN chats : chats'[c] = chats[c]
          /\ (pc[p] = "acc_find" /\ pc'[p] # "acc_find"
              /\ ChatsOfKey(cur[p].id) # {})
                => /\ Answers(p, "accept")
                   /\ resp'[p].chatId \in ChatsOfKey(cur[p].id)
                   /\ chats' = chats]_vars

\* the record with the two items and the two scores exchanged
Mirror(r) ==
    [from |-> r.to, to |-> r.from, scoreA |-> r.scoreB, scoreB |-> r.scoreA,
     matchScore |-> r.matchScore]

\* the records GET /recommend answers the requester email with, on the
\* catalog and with the weights and options of the request
SwapsFor(email) ==
    LET lists == HandlerSwaps(build, [query EXCEPT !.email = email],
                              FindUsers(users), FindItems(items))
    IN  Elems(CHOOSE l \in lists : TRUE)

\* C37: on one catalog, with the same weights and options, the answer to a
\* requester holds a record (from, to, scoreA, scoreB, matchScore) exactly
\* when the answer to the owner of the item to holds the record with the
\* items and the scores exchanged and the same matchScore.  The answer is
\* compared when the first request has been served: the handler writes
\* nothing, so a request sent again is answered from the same catalog.
C37_RecommendSymmetric ==
    (recommended /\ served = 1 /\ build \in Builds) =>
        LET others == {users[u].email : u \in DOMAIN users} \ {query.email}
        IN  /\ \A k \in DOMAIN swaps : items[swaps[k].to].email \in others
            /\ \A e \in others :
                  {Mirror(r) : r \in {x \in Elems(swaps) : items[x.to].email = e}}
                      = {r \in SwapsFor(e) : items[r.to].email = query.email}

\* C37 witness: the answer holds a record whose two scores differ, given to
\* a requester who owns one item and is offered one of another user.
C37_Witness ==
    /\ recommended
    /\ served = 1
    /\ build \in Builds
    /\ \E k \in DOMAIN swaps :
          /\ swaps[k].scoreA # swaps[k].scoreB
          /\ items[swaps[k].from].email = query.email
          /\ items[swaps[k].to].email # query.email

====
